---- MODULE Spec2Model ----
(***************************************************************************)
(* Verification model of the knowledge-base ingestion core:                *)
(*   - retry_with_backoff            (knowledge_base/processing/retry.py)  *)
(*   - GeminiEmbedder / PineconeSparseEmbedder document embedding          *)
(*   - VectorNormalizer                                                    *)
(*   - upsert_to_vector_db                                                 *)
(*   - TextChunker.split_text                                              *)
(* Each component has its own specification (SpecRetry, SpecEmbed,         *)
(* SpecUpsert, SpecChunk) over the shared variables below; a component     *)
(* that a specification does not exercise stays in its idle state.         *)
(***************************************************************************)
EXTENDS Integers, Sequences, FiniteSets, TLC

VARIABLES
    rt,      \* one activation of retry_with_backoff (its arguments and loop state)
    events,  \* observable calls in program order: fn/provider calls, sleeps
    emb,     \* one activation of embed_KB_document_dense / embed_KB_document_sparse
    ups,     \* one activation of upsert_to_vector_db
    chk,     \* one activation of TextChunker.split_text
    rag,     \* one activation of RagRetriever.retrieve_RAG_matches
    run,     \* KnowledgeBasePipeline.run over a list of files, and the index it fills
    pl,      \* one activation of KnowledgeBasePipeline._embed_and_upsert
    tool,    \* one activation of PerformRagTool._run
    nrm,     \* one call of VectorNormalizer.normalize
    crawl    \* one activation of URLtoMarkdownConverter.scrape_tree

vars == <<rt, events, emb, ups, chk, rag, run, pl, tool, nrm, crawl>>

\* ------------------------------------------------------------------ bounds
\* largest max_retries argument explored for the stand-alone retry utility
MaxRetriesArg == 6
\* number of full embedding batches in the largest input list explored
MaxFullBatches == 2

\* ------------------------------------------------------------ basic helpers
Min(a, b) == IF a < b THEN a ELSE b

Abs(a) == IF a < 0 THEN 0 - a ELSE a

RECURSIVE Pow2(_)
Pow2(k) == IF k = 0 THEN 1 ELSE 2 * Pow2(k - 1)

RECURSIVE GCD(_, _)
GCD(a, b) == IF b = 0 THEN a ELSE GCD(b, a % b)

\* Python slice s[i : i + n] with 0-based i
Slice(s, i, n) == SubSeq(s, i + 1, Min(i + n, Len(s)))

\* Python range(0, total, step)
RangeStarts(total, step) == {i \in 0..total : i % step = 0 /\ i < total}

\* ceiling division as written in the embedders: (n + b - 1) // b
CeilDiv(n, b) == (n + b - 1) \div b

\* the sequences over S of length at most n
RECURSIVE SeqsUpTo(_, _)
SeqsUpTo(S, n) ==
    IF n = 0 THEN {<<>>}
    ELSE LET shorter == SeqsUpTo(S, n - 1)
         IN  shorter \cup {Append(q, x) : q \in {p \in shorter : Len(p) = n - 1}, x \in S}

Idle == [status |-> "idle"]

\* ======================================================================
\* retry_with_backoff
\* ======================================================================
\* An exception object: its class, whether its message/status marks a rate
\* limit, the provider call that raised it (its identity) and, for the
\* RuntimeError built by the embedders, the batch it names and its cause.
Exc(cls, rate, at) ==
    [cls |-> cls, rate |-> rate, at |-> at, batch |-> 0, total |-> 0, cause |-> "none"]

NoExc == Exc("none", FALSE, 0)

SleepEv(ms) == [ev |-> "sleep", ms |-> ms]

\* (mutation: the delay grows linearly, initial_delay * 2 * attempt)
BackoffDelayLinear(initial_delay, attempt, max_delay) ==
    Min(initial_delay * 2 * attempt, max_delay)

\* delay = min(initial_delay * (2**attempt), max_delay)
BackoffDelay(initial_delay, attempt, max_delay) ==
    Min(initial_delay * Pow2(attempt), max_delay)

\* (mutation: a bare `except Exception` that retries everything)
IsRetryableAny(e, retryable_on) == TRUE

\* `except retryable_on as e` matches on the exception class
IsRetryable(e, retryable_on) == e.cls \in retryable_on

\* (mutation: off by one, the loop sleeps once more before giving up)
IsLastAttemptLate(attempt, max_retries) == attempt = max_retries + 1

\* `if attempt == max_retries: raise`
IsLastAttempt(attempt, max_retries) == attempt = max_retries

\* state of retry_with_backoff on entry
RetryEnter(max_retries, initial_delay, max_delay, retryable_on) ==
    [status |-> "running", max_retries |-> max_retries,
     initial_delay |-> initial_delay, max_delay |-> max_delay,
     retryable_on |-> retryable_on, attempt |-> 0, calls |-> 0,
     result |-> <<>>, exc |-> NoExc, last |-> NoExc]

\* retry_with_backoff is inside its loop
RetryRunning(r) == r.status = "running" /\ r.attempt <= r.max_retries

\* One iteration of the for-loop from state r: fn() is called (callEv records
\* the call); outcome is [ok |-> TRUE, value |-> v] or [ok |-> FALSE, exc |-> e].
\* Gives the next state and the calls made, in order.  r.last is what the call
\* did (NoExc when it returned), r.exc what retry_with_backoff raised.
RetryStep(r, callEv, outcome) ==
    IF outcome.ok
      THEN [rt |-> [r EXCEPT !.status = "returned", !.calls = @ + 1,
                             !.result = outcome.value, !.last = NoExc],
            evs |-> <<callEv>>]
      ELSE IF IsRetryable(outcome.exc, r.retryable_on)
        THEN IF IsLastAttempt(r.attempt, r.max_retries)
               THEN [rt |-> [r EXCEPT !.status = "raised", !.calls = @ + 1,
                                      !.exc = outcome.exc, !.last = outcome.exc],
                     evs |-> <<callEv>>]
               ELSE [rt |-> [r EXCEPT !.attempt = @ + 1, !.calls = @ + 1,
                                      !.last = outcome.exc],
                     evs |-> <<callEv,
                               SleepEv(1000 * BackoffDelay(r.initial_delay, r.attempt, r.max_delay))>>]
        ELSE [rt |-> [r EXCEPT !.status = "raised", !.calls = @ + 1,
                               !.exc = outcome.exc, !.last = outcome.exc],
              evs |-> <<callEv>>]

\* ---- stand-alone use (as in test_retry.py): fn is an arbitrary callable
RetryClasses == {"ValueError", "TypeError", "RuntimeError"}
RetryableChoices == {{"ValueError"}, {"ValueError", "RuntimeError"}}
InitialDelayChoices == {1, 2}
MaxDelayChoices == {1, 10, 60}

FnCallEv == [ev |-> "fn"]

InitRetry ==
    /\ \E m \in 0..MaxRetriesArg, d \in InitialDelayChoices,
          x \in MaxDelayChoices, r \in RetryableChoices :
          rt = RetryEnter(m, d, x, r)
    /\ events = <<>>
    /\ run = Idle
    /\ pl = Idle
    /\ tool = Idle
    /\ nrm = Idle
    /\ crawl = Idle
    /\ rag = Idle
    /\ emb = Idle
    /\ ups = Idle
    /\ chk = Idle

\* fn() returns a value
FnReturns ==
    /\ emb.status = "idle"
    /\ RetryRunning(rt)
    /\ LET st == RetryStep(rt, FnCallEv, [ok |-> TRUE, value |-> <<"success">>])
       IN  rt' = st.rt /\ events' = events \o st.evs
    /\ UNCHANGED <<emb, ups, chk, rag, run, pl, tool, nrm, crawl>>

\* fn() raises an exception of some class
FnRaises ==
    /\ emb.status = "idle"
    /\ RetryRunning(rt)
    /\ \E c \in RetryClasses :
          LET st == RetryStep(rt, FnCallEv, [ok |-> FALSE, exc |-> Exc(c, FALSE, rt.calls + 1)])
          IN  rt' = st.rt /\ events' = events \o st.evs
    /\ UNCHANGED <<emb, ups, chk, rag, run, pl, tool, nrm, crawl>>

NextRetry == FnReturns \/ FnRaises

SpecRetry == InitRetry /\ [][NextRetry]_vars

\* ---- observations on the event log
SleepsOf(evs) == SelectSeq(evs, LAMBDA e : e.ev = "sleep")

CallsOf(evs) == SelectSeq(evs, LAMBDA e : e.ev # "sleep")

LastEvIsCall(evs) == Len(evs) > 0 /\ evs[Len(evs)].ev # "sleep"

\* ======================================================================
\* VectorNormalizer
\* ======================================================================
\* A float is modelled as a reduced fraction <<FloatTag, numerator,
\* denominator>>, so that equal fractions denote equal floats; provider
\* values are integers.  The tag tells a float from a list of floats, as
\* np.array does when it computes the shape of its argument.
FloatTag == <<"float">>

Num(a) == <<FloatTag, a, 1>>

Frac(a, b) ==
    LET g == GCD(Abs(a), b)
    IN  IF a = 0 THEN <<FloatTag, 0, 1>> ELSE <<FloatTag, a \div g, b \div g>>

\* the value 0.0 / 0.0
NaN == <<FloatTag, 0, 0>>

Numerator(x) == x[2]

IsFloat(x) == Len(x) = 3 /\ x[1] = FloatTag

SumSquares(values) ==
    LET RECURSIVE Sum(_)
        Sum(k) == IF k = 0 THEN 0 ELSE Numerator(values[k]) * Numerator(values[k]) + Sum(k - 1)
    IN  Sum(Len(values))

\* np.linalg.norm of a vector of integer-valued floats (the inputs explored
\* have an integer norm)
L2Norm(values) ==
    LET q == SumSquares(values)
    IN  CHOOSE r \in 0..q : r * r = q

\* (mutation: without `norms[norms == 0] = 1e-10` a zero row is divided by
\* its zero norm; 0.0 / 0.0 is nan)
NormalizeRowUnguarded(row) ==
    LET norm == L2Norm(row)
    IN  [k \in 1..Len(row) |->
            IF norm = 0 THEN NaN ELSE Frac(Numerator(row[k]), norm)]

\* one row of `arr / norms` after `norms[norms == 0] = 1e-10`: a zero norm
\* means every component is 0, and 0 / 1e-10 is 0.0
NormalizeRow(row) ==
    LET norm == L2Norm(row)
    IN  [k \in 1..Len(row) |->
            IF norm = 0 THEN Frac(0, 1) ELSE Frac(Numerator(row[k]), norm)]

\* np.array(vectors).ndim: an empty list is a one-dimensional array of
\* shape (0,), a list of floats (one flat vector) is one-dimensional, a
\* list of vectors is two-dimensional
Ndim(vectors) ==
    IF Len(vectors) = 0 THEN 1
    ELSE IF IsFloat(vectors[1]) THEN 1
    ELSE 2

\* VectorNormalizer._normalize_dense: `if arr.ndim == 1: arr = arr.reshape(1, -1)`
\* turns the array into one row, then every row is divided by its norm
NormalizeDense(vectors) ==
    LET arr == IF Ndim(vectors) = 1 THEN <<vectors>> ELSE vectors
    IN  [i \in 1..Len(arr) |-> NormalizeRow(arr[i])]

\* a SparseEmbedding: parallel lists sparse_indices / sparse_values
SparseEmbedding(indices, values) == [sparse_indices |-> indices, sparse_values |-> values]

\* VectorNormalizer._normalize_sparse: values / norm when norm > 0, else the
\* values as they are; indices are carried over
NormalizeSparse(vectors) ==
    [i \in 1..Len(vectors) |->
        LET values == vectors[i].sparse_values
            norm == L2Norm(values)
        IN  SparseEmbedding(
                vectors[i].sparse_indices,
                IF norm > 0
                  THEN [k \in 1..Len(values) |-> Frac(Numerator(values[k]), norm)]
                  ELSE values)]

\* VectorNormalizer.normalize: dispatch on the vector type
Normalize(vectors, vector_type) ==
    IF vector_type = "dense" THEN NormalizeDense(vectors) ELSE NormalizeSparse(vectors)

\* ---- VectorNormalizer.normalize called on its own
\* number of vectors in the largest batch explored
MaxBatchVectors == 2

\* value lists explored (all of integer norm): empty, zero vectors of
\* several lengths, and vectors of norm 5, 3 and 10
ValueLists ==
    {<<>>, <<Num(0)>>, <<Num(0), Num(0)>>, <<Num(0), Num(0), Num(0)>>,
     <<Num(3), Num(4)>>, <<Num(0 - 4), Num(3)>>, <<Num(0), Num(5)>>,
     <<Num(2), Num(1), Num(2)>>, <<Num(2), Num(4), Num(4), Num(8)>>}

\* sparse_indices of a sparse vector with n values
IndicesFor(n) == [k \in 1..n |-> 2 * k + 5]

VectorTypes == {"dense", "sparse", "other"}

\* a batch for the given type: dense rows of one length (a rectangular
\* array) or one flat vector, or SparseEmbedding objects
BatchesOf(vector_type) ==
    LET lists == SeqsUpTo(ValueLists, MaxBatchVectors)
    IN  IF vector_type = "sparse"
          THEN {[i \in 1..Len(b) |-> SparseEmbedding(IndicesFor(Len(b[i])), b[i])] : b \in lists}
          ELSE {b \in lists : \A i, j \in 1..Len(b) : Len(b[i]) = Len(b[j])}
                  \cup ValueLists

InitNormalize ==
    /\ \E t \in VectorTypes : \E b \in BatchesOf(t) :
          nrm = [status |-> "called", vector_type |-> t, vectors |-> b,
                 result |-> <<>>, exc |-> NoExc]
    /\ rt = Idle
    /\ emb = Idle
    /\ ups = Idle
    /\ chk = Idle
    /\ rag = Idle
    /\ run = Idle
    /\ pl = Idle
    /\ tool = Idle
    /\ crawl = Idle
    /\ events = <<>>

\* lines 44-48: the batch is normalized and returned
NormalizeReturns ==
    /\ nrm.status = "called"
    /\ nrm.vector_type \in {"dense", "sparse"}
    /\ nrm' = [nrm EXCEPT !.status = "returned",
                          !.result = Normalize(nrm.vectors, nrm.vector_type)]
    /\ UNCHANGED <<rt, events, emb, ups, chk, rag, run, pl, tool, crawl>>

\* lines 49-50: `case _: raise ValueError`
NormalizeRaises ==
    /\ nrm.status = "called"
    /\ nrm.vector_type \notin {"dense", "sparse"}
    /\ nrm' = [nrm EXCEPT !.status = "raised", !.exc = Exc("ValueError", FALSE, 0)]
    /\ UNCHANGED <<rt, events, emb, ups, chk, rag, run, pl, tool, crawl>>

NextNormalize == NormalizeReturns \/ NormalizeRaises

SpecNormalize == InitNormalize /\ [][NextNormalize]_vars

\* ======================================================================
\* Document embedding: GeminiEmbedder.embed_KB_document_dense and
\* PineconeSparseEmbedder.embed_KB_document_sparse / _create_embeddings
\* ======================================================================
GEMINI_EMBEDDING_BATCH_LIMIT == 100
PINECONE_MAX_BATCH_SIZE == 96
EMBED_MAX_RETRIES == 6
EMBED_INITIAL_DELAY == 2
EMBED_MAX_DELAY == 60
THROTTLE_MS == 500

Modes == {"dense", "sparse"}

BatchSize(mode) ==
    IF mode = "dense" THEN GEMINI_EMBEDDING_BATCH_LIMIT ELSE PINECONE_MAX_BATCH_SIZE

\* the provider's exception class: GoogleGenerativeAIError / PineconeApiException
ProviderClass(mode) ==
    IF mode = "dense" THEN "GoogleGenerativeAIError" ELSE "PineconeApiException"

\* A text handed to an embedder is identified by a natural number, its length
\* in characters.  The input list: text i is one of three distinct texts, by
\* position
TextKinds == 3
TextsOf(n) == [i \in 1..n |-> i % TextKinds]

\* what the provider computes for one text (one vector per submitted text)
ProviderVector(mode, text) ==
    IF mode = "dense"
      THEN CASE text = 0 -> <<Num(0), Num(0)>>
             [] text = 1 -> <<Num(3), Num(4)>>
             [] OTHER    -> <<Num(0 - 4), Num(3)>>
      ELSE CASE text = 0 -> SparseEmbedding(<<7>>, <<Num(0)>>)
             [] text = 1 -> SparseEmbedding(<<1, 5>>, <<Num(3), Num(4)>>)
             [] OTHER    -> SparseEmbedding(<<2, 5, 9>>, <<Num(2), Num(1), Num(2)>>)

\* embedding_model.embed_documents(batch) / pinecone_client.inference.embed(inputs=batch)
ProviderEmbed(mode, batch) == [i \in 1..Len(batch) |-> ProviderVector(mode, batch[i])]

\* (mutation: only full batches are yielded, a trailing partial batch is lost)
BatchTextsFullOnly(texts, batch_size) ==
    [k \in 1..(Len(texts) \div batch_size) |->
        Slice(texts, (k - 1) * batch_size, batch_size)]

\* _batch_texts: texts[i : i + batch_size] for i in range(0, len(texts), batch_size)
BatchTexts(texts, batch_size) ==
    [k \in 1..Cardinality(RangeStarts(Len(texts), batch_size)) |->
        Slice(texts, (k - 1) * batch_size, batch_size)]

\* total_batches = (len(texts) + LIMIT - 1) // LIMIT
TotalBatches(n, batch_size) == CeilDiv(n, batch_size)

SubmitEv(batch_num, batch, first) ==
    [ev |-> "submit", batch |-> batch_num, texts |-> batch, first |-> first]

\* `"RESOURCE_EXHAUSTED" in str(e)` / `e.status == 429`
IsRateLimit(e) == e.rate

\* RuntimeError(f"Error generating ... embeddings for batch {batch_num}/{total_batches}: {e}") from e
WrapBatchError(e, batch_num, total) ==
    [cls |-> "RuntimeError", rate |-> FALSE, at |-> e.at,
     batch |-> batch_num, total |-> total, cause |-> e.cls]

\* input sizes explored: around every batch boundary up to MaxFullBatches
InputSizes(mode) ==
    {k * BatchSize(mode) + r : k \in 0..MaxFullBatches, r \in {0, 1}}
        \cup {BatchSize(mode) - 1}

\* state of the embedding loop on entry, for the input list texts
CreateEmbeddingsEnter(mode, texts) ==
    [status |-> "running", mode |-> mode, n |-> Len(texts), texts |-> texts,
     batch_num |-> 1, phase |-> "submit", raw |-> <<>>, submitted |-> 0,
     result |-> <<>>, exc |-> NoExc, cause |-> NoExc]

EmbedEnter(mode, n) == CreateEmbeddingsEnter(mode, TextsOf(n))

InitEmbed ==
    /\ \E mode \in Modes : \E n \in InputSizes(mode) : emb = EmbedEnter(mode, n)
    /\ rt = Idle
    /\ events = <<>>
    /\ run = Idle
    /\ pl = Idle
    /\ tool = Idle
    /\ nrm = Idle
    /\ crawl = Idle
    /\ rag = Idle
    /\ ups = Idle
    /\ chk = Idle

EmbBatches == BatchTexts(emb.texts, BatchSize(emb.mode))
EmbBatch == EmbBatches[emb.batch_num]
EmbTotal == TotalBatches(emb.n, BatchSize(emb.mode))
EmbInLoop == emb.status = "running" /\ emb.batch_num <= Len(EmbBatches)

\* the tail of the method: normalize the collected vectors and return them
\* (embed_KB_document_dense lines 110-113, embed_KB_document_sparse line 47)
EmbReturn(e, raw) ==
    [e EXCEPT !.status = "returned", !.raw = raw, !.result = Normalize(raw, e.mode)]

\* (mutation: the throttle is applied between batches only, not after the last)
ThrottleBetweenOnly(batch_num, total) ==
    IF batch_num < total THEN <<SleepEv(THROTTLE_MS)>> ELSE <<>>

\* time.sleep(0.5), the last statement of the loop body, for every batch
Throttle(batch_num, total) == <<SleepEv(THROTTLE_MS)>>

\* the loop body ends: raw_embeddings.extend(batch_embeddings); time.sleep(0.5);
\* after the last batch the method goes on to normalize and return
EmbAfterBatch(batch_embeddings, evs) ==
    /\ events' = evs \o Throttle(emb.batch_num, Len(EmbBatches))
    /\ LET e == [emb EXCEPT !.batch_num = @ + 1, !.phase = "submit",
                            !.submitted = @ + 1, !.cause = NoExc]
           raw == emb.raw \o batch_embeddings
       IN  emb' = IF emb.batch_num = Len(EmbBatches)
                    THEN EmbReturn(e, raw)
                    ELSE [e EXCEPT !.raw = raw]

\* an empty input list: the loop body never runs
EmbedEmptyInput ==
    /\ emb.status = "running" /\ Len(EmbBatches) = 0
    /\ emb' = EmbReturn(emb, emb.raw)
    /\ UNCHANGED <<rt, events, ups, chk, rag, run, pl, tool, nrm, crawl>>

\* first submission of a batch returns
SubmitBatchOk ==
    /\ EmbInLoop /\ emb.phase = "submit"
    /\ EmbAfterBatch(ProviderEmbed(emb.mode, EmbBatch),
                     Append(events, SubmitEv(emb.batch_num, EmbBatch, TRUE)))
    /\ UNCHANGED <<rt, ups, chk, rag, run, pl, tool, nrm, crawl>>

\* first submission raises the provider's exception with a rate-limit mark:
\* retry_with_backoff is entered for this batch
SubmitBatchRateLimited ==
    /\ EmbInLoop /\ emb.phase = "submit"
    /\ emb' = [emb EXCEPT !.phase = "retry", !.submitted = @ + 1,
                          !.cause = Exc(ProviderClass(emb.mode), TRUE, emb.submitted + 1)]
    /\ events' = Append(events, SubmitEv(emb.batch_num, EmbBatch, TRUE))
    /\ rt' = RetryEnter(EMBED_MAX_RETRIES, EMBED_INITIAL_DELAY, EMBED_MAX_DELAY,
                        {ProviderClass(emb.mode)})
    /\ UNCHANGED <<ups, chk, rag, run, pl, tool, nrm, crawl>>

\* first submission raises the provider's exception without a rate-limit
\* mark: the bare `raise` of the else branch lets it leave the method
SubmitBatchProviderError ==
    /\ EmbInLoop /\ emb.phase = "submit"
    /\ LET e == Exc(ProviderClass(emb.mode), FALSE, emb.submitted + 1)
       IN  emb' = [emb EXCEPT !.status = "raised", !.submitted = @ + 1,
                              !.exc = e, !.cause = e]
    /\ events' = Append(events, SubmitEv(emb.batch_num, EmbBatch, TRUE))
    /\ UNCHANGED <<rt, ups, chk, rag, run, pl, tool, nrm, crawl>>

\* first submission raises any other exception: `except Exception` wraps it
SubmitBatchOtherError ==
    /\ EmbInLoop /\ emb.phase = "submit"
    /\ LET e == Exc("ConnectionError", FALSE, emb.submitted + 1)
       IN  emb' = [emb EXCEPT !.status = "raised", !.submitted = @ + 1,
                              !.exc = WrapBatchError(e, emb.batch_num, EmbTotal),
                              !.cause = e]
    /\ events' = Append(events, SubmitEv(emb.batch_num, EmbBatch, TRUE))
    /\ UNCHANGED <<rt, ups, chk, rag, run, pl, tool, nrm, crawl>>

\* (mutation: the retry closure resubmits the run from its first batch)
RetryBatchFromStart(batches, batch_num) == batches[1]

\* the `batch` captured by `fn = lambda: ...embed...(batch)`: the batch of the
\* current loop iteration
RetryBatch(batches, batch_num) == batches[batch_num]

\* One resubmission of the rate-limited batch by retry_with_backoff.  When
\* retry_with_backoff returns, the loop body ends as after a first success;
\* when it raises, the exception leaves the method from inside the handler of
\* `except <provider class>`, where no sibling `except` clause applies.
Resubmit(outcome) ==
    /\ EmbInLoop /\ emb.phase = "retry"
    /\ RetryRunning(rt)
    /\ LET st == RetryStep(rt, SubmitEv(emb.batch_num, RetryBatch(EmbBatches, emb.batch_num), FALSE),
                            outcome)
       IN  /\ rt' = st.rt
           /\ CASE st.rt.status = "returned" ->
                     EmbAfterBatch(st.rt.result, events \o st.evs)
                [] st.rt.status = "raised" ->
                     /\ emb' = [emb EXCEPT !.status = "raised", !.submitted = @ + 1,
                                           !.exc = st.rt.exc, !.cause = outcome.exc]
                     /\ events' = events \o st.evs
                [] OTHER ->
                     /\ emb' = [emb EXCEPT !.submitted = @ + 1, !.cause = outcome.exc]
                     /\ events' = events \o st.evs
    /\ UNCHANGED <<ups, chk, rag, run, pl, tool, nrm, crawl>>

\* the resubmission returns the batch's vectors
ResubmitOk ==
    Resubmit([ok |-> TRUE,
              value |-> ProviderEmbed(emb.mode, RetryBatch(EmbBatches, emb.batch_num))])

\* the resubmission is rate-limited again
ResubmitRateLimited ==
    Resubmit([ok |-> FALSE, exc |-> Exc(ProviderClass(emb.mode), TRUE, emb.submitted + 1)])

\* the resubmission fails with a provider error that is not a rate limit
ResubmitProviderError ==
    Resubmit([ok |-> FALSE, exc |-> Exc(ProviderClass(emb.mode), FALSE, emb.submitted + 1)])

\* the resubmission fails with an exception of another class
ResubmitOtherError ==
    Resubmit([ok |-> FALSE, exc |-> Exc("ConnectionError", FALSE, emb.submitted + 1)])

NextEmbed ==
    \/ EmbedEmptyInput
    \/ SubmitBatchOk
    \/ SubmitBatchRateLimited
    \/ SubmitBatchProviderError
    \/ SubmitBatchOtherError
    \/ ResubmitOk
    \/ ResubmitRateLimited
    \/ ResubmitProviderError
    \/ ResubmitOtherError

SpecEmbed == InitEmbed /\ [][NextEmbed]_vars

\* ======================================================================
\* upsert_to_vector_db
\* ======================================================================
PINECONE_UPSERT_MAX_BATCH_SIZE == 50

\* chunk.metadata.get('id') of a chunk without an id
NoneId == "None"

\* the id a chunk at position i carries when it has one
ChunkIdAt(i) == <<"doc_chunk", i>>

\* a Document: page_content and metadata['id'], which is the chunk's id or a
\* falsy value (None when the key is absent, or the empty string)
ChunkAt(i, idKind) ==
    [content |-> i,
     id |-> IF idKind = "id" THEN ChunkIdAt(i) ELSE <<idKind, 0>>]

IdKinds == {"id", NoneId, ""}

\* (mutation: `if chunk_id is None`, an empty id counts as an id)
IsFalsyIdNoneOnly(id) == id[1] = NoneId

\* `if not chunk_id`
IsFalsyId(id) == id[1] \in {NoneId, ""}

DenseAt(i) == <<Frac(3, 5), Frac(i, 5)>>
SparseAt(i) == SparseEmbedding(<<i>>, <<Frac(1, 1)>>)

\* Python zip(a, b, c): stops at the shortest
ZipLen(a, b, c) == Min(Len(a), Min(Len(b), Len(c)))

\* the record built for one (chunk, dense, sparse) triple
IndexRecord(chunk, dense, sparse) ==
    [id |-> chunk.id, values |-> dense,
     sparse_values |-> [indices |-> sparse.sparse_indices, values |-> sparse.sparse_values],
     text |-> chunk.content]

\* (mutation: chunks without id are filtered out before the zip, so the
\* vectors of later positions move up)
BuildRecordsFilterFirst(text_chunks, dense_embeddings, sparse_embeddings) ==
    LET kept == SelectSeq(text_chunks, LAMBDA c : ~IsFalsyId(c.id))
        n == ZipLen(kept, dense_embeddings, sparse_embeddings)
    IN  [k \in 1..n |-> IndexRecord(kept[k], dense_embeddings[k], sparse_embeddings[k])]

\* lines 35-59: the records of the zipped triples, chunks without id skipped
BuildRecords(text_chunks, dense_embeddings, sparse_embeddings) ==
    LET n == ZipLen(text_chunks, dense_embeddings, sparse_embeddings)
        triples == [k \in 1..n |->
                      <<text_chunks[k], dense_embeddings[k], sparse_embeddings[k]>>]
        kept == SelectSeq(triples, LAMBDA t : ~IsFalsyId(t[1].id))
    IN  [k \in 1..Len(kept) |-> IndexRecord(kept[k][1], kept[k][2], kept[k][3])]

IndexEv == [ev |-> "Index"]

\* what pc.Index / index.upsert may raise: a PineconeException or any other
\* exception (the classes the repository names); `except Exception as e:
\* raise e` passes each on as it is
IndexWriteErrors ==
    {"PineconeException", "PineconeApiException", "RuntimeError", "ConnectionError",
     "Exception"}
UpsertEv(batch) == [ev |-> "upsert", vectors |-> batch]

\* the index after index.upsert(vectors=batch): insert or overwrite by id
\* (of two records of the batch with one id, the later one stays)
StoreAfter(store, batch) ==
    {r \in store : \A k \in 1..Len(batch) : batch[k].id # r.id}
        \cup {batch[k] : k \in {i \in 1..Len(batch) :
                                    \A j \in (i + 1)..Len(batch) : batch[j].id # batch[i].id}}

\* largest list length explored for upsert_to_vector_db with lists of
\* arbitrary (also differing) lengths, and the number of positions whose
\* chunk may lack an id
MaxChunks == 3

\* most full write batches explored
MaxWriteBatches == 2

\* lengths of the three lists: any small lengths, or one common length
\* around a multiple of the write batch size
UpsertLengths ==
    {<<lc, ld, ls>> : lc \in 0..MaxChunks, ld \in 0..MaxChunks, ls \in 0..MaxChunks}
        \cup {<<n, n, n>> : n \in {k * PINECONE_UPSERT_MAX_BATCH_SIZE + r :
                                        k \in 1..MaxWriteBatches, r \in {0, 1}}}

InitUpsert ==
    /\ \E lens \in UpsertLengths :
       LET lc == lens[1]
           ld == lens[2]
           ls == lens[3]
       IN
       \E kinds \in [1..Min(lc, MaxChunks) -> IdKinds] :
          ups = [status |-> "called",
                 text_chunks |-> [i \in 1..lc |->
                                    ChunkAt(i, IF i <= MaxChunks THEN kinds[i] ELSE "id")],
                 dense_embeddings |-> [i \in 1..ld |-> DenseAt(i)],
                 sparse_embeddings |-> [i \in 1..ls |-> SparseAt(i)],
                 records |-> <<>>, i |-> 0, store |-> {}, exc |-> NoExc]
    /\ rt = Idle
    /\ emb = Idle
    /\ chk = Idle
    /\ events = <<>>
    /\ run = Idle
    /\ pl = Idle
    /\ tool = Idle
    /\ nrm = Idle
    /\ crawl = Idle
    /\ rag = Idle

\* pinecone_client.Index(index_name) raises: logged and re-raised
UpsertIndexFails ==
    /\ ups.status = "called"
    /\ \E c \in IndexWriteErrors :
          ups' = [ups EXCEPT !.status = "raised", !.exc = Exc(c, FALSE, 1)]
    /\ events' = Append(events, IndexEv)
    /\ UNCHANGED <<rt, emb, chk, rag, run, pl, tool, nrm, crawl>>

\* the index handle is obtained and the records are built; with no valid
\* record the call warns and returns
UpsertBuildRecords ==
    /\ ups.status = "called"
    /\ LET records == BuildRecords(ups.text_chunks, ups.dense_embeddings,
                                   ups.sparse_embeddings)
       IN  ups' = [ups EXCEPT !.records = records,
                              !.status = IF Len(records) = 0 THEN "returned" ELSE "writing"]
    /\ events' = Append(events, IndexEv)
    /\ UNCHANGED <<rt, emb, chk, rag, run, pl, tool, nrm, crawl>>

\* (mutation: every batch but the first starts one record early)
WriteBatchOverlapping(records, i) ==
    Slice(records, IF i > 0 THEN i - 1 ELSE 0, PINECONE_UPSERT_MAX_BATCH_SIZE)

\* batch = records[i : i + PINECONE_UPSERT_MAX_BATCH_SIZE]
WriteBatch(records, i) == Slice(records, i, PINECONE_UPSERT_MAX_BATCH_SIZE)

UpsBatch == WriteBatch(ups.records, ups.i)

\* index.upsert(vectors=batch) succeeds; after the last batch the call returns
UpsertBatchOk ==
    /\ ups.status = "writing"
    /\ LET next == ups.i + PINECONE_UPSERT_MAX_BATCH_SIZE
       IN  ups' = [ups EXCEPT !.i = next, !.store = StoreAfter(@, UpsBatch),
                              !.status = IF next \in RangeStarts(Len(ups.records),
                                                                 PINECONE_UPSERT_MAX_BATCH_SIZE)
                                           THEN "writing" ELSE "returned"]
    /\ events' = Append(events, UpsertEv(UpsBatch))
    /\ UNCHANGED <<rt, emb, chk, rag, run, pl, tool, nrm, crawl>>

\* (mutation: the handler undoes the earlier writes before re-raising)
WriteFailureRollsBack(u, e) == [u EXCEPT !.status = "raised", !.exc = e, !.store = {}]

\* lines 75-77: the failure is logged and `raise e` re-raises it; the index
\* is left as the earlier writes made it
WriteFailure(u, e) == [u EXCEPT !.status = "raised", !.exc = e]

\* index.upsert(vectors=batch) raises: logged and re-raised
UpsertBatchFails ==
    /\ ups.status = "writing"
    /\ \E c \in IndexWriteErrors :
          ups' = WriteFailure(ups, Exc(c, FALSE, Len(events) + 1))
    /\ events' = Append(events, UpsertEv(UpsBatch))
    /\ UNCHANGED <<rt, emb, chk, rag, run, pl, tool, nrm, crawl>>

NextUpsert ==
    \/ UpsertIndexFails
    \/ UpsertBuildRecords
    \/ UpsertBatchOk
    \/ UpsertBatchFails

SpecUpsert == InitUpsert /\ [][NextUpsert]_vars

\* ======================================================================
\* RagRetriever.retrieve_RAG_matches (with GeminiEmbedder.embed_dense_query
\* and PineconeSparseEmbedder.embed_sparse_query)
\* ======================================================================
GEMINI_EMBEDDING_MAX_CHAR_LIMIT == 8000
PINECONE_EMBEDDING_MAX_CHAR_LIMIT == 8000

\* query[:GEMINI_EMBEDDING_MAX_CHAR_LIMIT] when the query is longer
TruncateQuery(query) ==
    IF query > GEMINI_EMBEDDING_MAX_CHAR_LIMIT
      THEN Min(query, GEMINI_EMBEDDING_MAX_CHAR_LIMIT) ELSE query

\* query_client.embed_query(query): the text submitted, the exception raised
EmbedQueryEv(text, exc) == [ev |-> "embed_query", text |-> text, exc |-> exc]

\* index.query(top_k=..., vector=..., sparse_vector=...): its arguments and
\* what came back (response.matches or an exception)
QueryEv(top_k, vector, sparse_vector, matches, exc) ==
    [ev |-> "query", top_k |-> top_k, vector |-> vector,
     sparse_vector |-> sparse_vector, matches |-> matches, exc |-> exc]

\* user queries explored, by length
QueryLengths ==
    {0, 1, 2, GEMINI_EMBEDDING_MAX_CHAR_LIMIT - 1, GEMINI_EMBEDDING_MAX_CHAR_LIMIT,
     GEMINI_EMBEDDING_MAX_CHAR_LIMIT + 1, 2 * GEMINI_EMBEDDING_MAX_CHAR_LIMIT}

TopKChoices == {1, 5}

\* response.matches: at most top_k scored vectors, best first
MatchLists(top_k) ==
    {m \in {<<>>, <<"vec3">>, <<"vec3", "vec2">>} : Len(m) <= top_k}

\* exception classes raised by the query client / by index.query and Index
DenseQueryErrors == {"GoogleGenerativeAIError", "RuntimeError"}
IndexQueryErrors == {"PineconeException", "Exception"}

NoMatches == <<"none">>

RagEnter(user_query, top_k_matches) ==
    [status |-> "dense", user_query |-> user_query, top_k |-> top_k_matches,
     dense_vector |-> <<>>, stage |-> "none", matches |-> NoMatches, exc |-> NoExc]

InitRag ==
    /\ \E q \in QueryLengths, k \in TopKChoices : rag = RagEnter(q, k)
    /\ rt = Idle
    /\ emb = Idle
    /\ ups = Idle
    /\ chk = Idle
    /\ events = <<>>
    /\ run = Idle
    /\ pl = Idle
    /\ tool = Idle
    /\ nrm = Idle
    /\ crawl = Idle

\* embed_dense_query lines 139-144: normalize([raw_embeddings])[0]
DenseQueryVector(text) == Normalize(<<ProviderVector("dense", text)>>, "dense")[1]

\* (mutation: the dense failure is logged and the call goes on to the
\* sparse embedding without a dense vector)
DenseFailureSwallowed(r, e) == [r EXCEPT !.status = "sparse"]

\* lines 64-66: the dense failure is logged and `raise e` re-raises it
DenseFailure(r, e) == [r EXCEPT !.status = "raised", !.stage = "dense", !.exc = e]

\* lines 60-62 and 68-69: the (truncated) query is embedded by the query
\* client, then embed_sparse_query enters _create_embeddings with [user_query]
RagDenseQueryOk ==
    /\ rag.status = "dense"
    /\ LET text == TruncateQuery(rag.user_query)
       IN  /\ events' = Append(events, EmbedQueryEv(text, NoExc))
           /\ rag' = [rag EXCEPT !.status = "sparse", !.dense_vector = DenseQueryVector(text)]
    /\ emb' = CreateEmbeddingsEnter("sparse", <<rag.user_query>>)
    /\ UNCHANGED <<rt, ups, chk, run, pl, tool, nrm, crawl>>

\* the query client raises
RagDenseQueryFails ==
    /\ rag.status = "dense"
    /\ \E c \in DenseQueryErrors :
          LET e == Exc(c, FALSE, 1)
          IN  /\ events' = Append(events, EmbedQueryEv(TruncateQuery(rag.user_query), e))
              /\ rag' = DenseFailure(rag, e)
              /\ emb' = IF DenseFailure(rag, e).status = "sparse"
                          THEN CreateEmbeddingsEnter("sparse", <<rag.user_query>>)
                          ELSE emb
    /\ UNCHANGED <<rt, ups, chk, run, pl, tool, nrm, crawl>>

\* lines 78-80: embed_sparse_query raised; logged and re-raised
RagSparseQueryFails ==
    /\ rag.status = "sparse" /\ emb.status = "raised"
    /\ rag' = [rag EXCEPT !.status = "raised", !.stage = "sparse", !.exc = emb.exc]
    /\ UNCHANGED <<rt, events, emb, ups, chk, run, pl, tool, nrm, crawl>>

\* What embed_sparse_query hands back, as the caller's isinstance test sees
\* it: a Python list is written [list |-> items]; anything else (a single
\* SparseEmbedding, as a stubbed embedder may return) is the object itself.
ListValue(items) == [list |-> items]

IsInstanceList(value) == "list" \in DOMAIN value

\* curr_sparse = sparse_vector[0] if isinstance(sparse_vector, list) else sparse_vector
CurrSparse(sparse_vector) ==
    IF IsInstanceList(sparse_vector) THEN sparse_vector.list[1] ELSE sparse_vector

\* line 82, outside any try: pc_client.Index(index_name) raises
RagIndexFails ==
    /\ rag.status = "sparse" /\ emb.status = "returned"
    /\ \E c \in IndexQueryErrors :
          rag' = [rag EXCEPT !.status = "raised", !.stage = "index", !.exc = Exc(c, FALSE, 1)]
    /\ events' = Append(events, IndexEv)
    /\ UNCHANGED <<rt, emb, ups, chk, run, pl, tool, nrm, crawl>>

\* lines 96-103: `return matches`
QuerySuccess(r, matches) == [r EXCEPT !.status = "returned", !.matches = matches]

\* lines 82-103: the index is opened, queried once, response.matches returned
RagQueryOk ==
    /\ rag.status = "sparse" /\ emb.status = "returned"
    /\ \E m \in MatchLists(rag.top_k) :
          /\ events' = events \o <<IndexEv,
                           QueryEv(rag.top_k, rag.dense_vector, CurrSparse(ListValue(emb.result)), m, NoExc)>>
          /\ rag' = QuerySuccess(rag, m)
    /\ UNCHANGED <<rt, emb, ups, chk, run, pl, tool, nrm, crawl>>

\* (mutation: a failed query is logged and an empty match list returned)
QueryFailureReturnsEmpty(r, e) == [r EXCEPT !.status = "returned", !.matches = <<>>]

\* lines 105-112: the failure is logged under its class and re-raised
QueryFailure(r, e) == [r EXCEPT !.status = "raised", !.stage = "query", !.exc = e]

\* index.query raises a PineconeException or any other exception
RagQueryFails ==
    /\ rag.status = "sparse" /\ emb.status = "returned"
    /\ \E c \in IndexQueryErrors :
          LET e == Exc(c, FALSE, 1)
          IN  /\ events' = events \o <<IndexEv,
                               QueryEv(rag.top_k, rag.dense_vector, CurrSparse(ListValue(emb.result)),
                                       NoMatches, e)>>
              /\ rag' = QueryFailure(rag, e)
    /\ UNCHANGED <<rt, emb, ups, chk, run, pl, tool, nrm, crawl>>

\* retrieve_RAG_matches; the sparse embedding of [user_query] runs the loop
\* of _create_embeddings (one batch, so never the empty-input path)
NextRag ==
    \/ RagDenseQueryOk
    \/ RagDenseQueryFails
    \/ SubmitBatchOk
    \/ SubmitBatchRateLimited
    \/ SubmitBatchProviderError
    \/ SubmitBatchOtherError
    \/ ResubmitOk
    \/ ResubmitRateLimited
    \/ ResubmitProviderError
    \/ ResubmitOtherError
    \/ RagSparseQueryFails
    \/ RagIndexFails
    \/ RagQueryOk
    \/ RagQueryFails

SpecRag == InitRag /\ [][NextRag]_vars

\* ======================================================================
\* TextChunker
\* ======================================================================
\* A text is a sequence of lines (joined by "\n"); a line is <<token, pad>>,
\* pad being the number of trailing spaces ("  \n" joins made by the header
\* splitter).  Strings that are inspected character by character (file
\* names, root ids) are sequences of one-character strings.
Line(tok) == <<tok, 0>>
FmBoundary == Line("---")

\* the lines a document body is made of: blank, header 1, header 2, prose
BodyTokens == {"", "# A", "## B", "text"}

TokLen(tok) ==
    CASE tok = ""           -> 0
      [] tok = "# A"        -> 3
      [] tok = "## B"       -> 4
      [] tok = "text"       -> 4
      [] tok = "title: T"   -> 8
      [] tok = "page_id: 7" -> 10
      [] OTHER              -> 3

LineLen(line) == TokLen(line[1]) + line[2]

IsBlank(line) == line[1] = ""

\* header level of a line for headers_to_split_on (#, ##, ###, ####); 0 if none
HeaderLevel(line) ==
    CASE line[1] = "# A"  -> 1
      [] line[1] = "## B" -> 2
      [] OTHER            -> 0

\* stripped_line[len(sep):].strip()
HeaderData(line) ==
    CASE line[1] = "# A"  -> "A"
      [] line[1] = "## B" -> "B"
      [] OTHER            -> ""

\* front-matter lines `key: value`
FmKeyLines == {"title: T", "page_id: 7"}
FmKey(tok) == IF tok = "title: T" THEN "title" ELSE "page_id"
FmValue(tok) == IF tok = "title: T" THEN <<"T">> ELSE <<"7">>

\* str.strip() on a text: leading and trailing blank lines go
RECURSIVE StripLeading(_)
StripLeading(lines) ==
    IF Len(lines) > 0 /\ IsBlank(lines[1]) THEN StripLeading(Tail(lines)) ELSE lines

RECURSIVE StripTrailing(_)
StripTrailing(lines) ==
    IF Len(lines) > 0 /\ IsBlank(lines[Len(lines)])
      THEN StripTrailing(SubSeq(lines, 1, Len(lines) - 1)) ELSE lines

StripText(lines) == StripTrailing(StripLeading(lines))

\* position of the first front-matter boundary after line i, 0 if none
FirstBoundaryAfter(lines, i) ==
    LET S == {k \in (i + 1)..Len(lines) : lines[k] = FmBoundary}
    IN  IF S = {} THEN 0 ELSE CHOOSE k \in S : \A j \in S : k <= j

\* frontmatter.loads(text): the text is stripped; if it starts with a `---`
\* line and a second `---` line follows, the lines between are loaded as the
\* metadata mapping and the stripped remainder is the content; otherwise the
\* metadata is empty and the content is the stripped text.  metadata is the
\* set of <<key, value>> pairs.
FrontmatterLoads(text) ==
    LET t == StripText(text)
        close == IF Len(t) > 0 /\ t[1] = FmBoundary THEN FirstBoundaryAfter(t, 1) ELSE 0
    IN  IF close = 0
          THEN [metadata |-> {}, content |-> t]
          ELSE [metadata |-> {<<FmKey(t[k][1]), FmValue(t[k][1])>> :
                                 k \in {j \in 2..(close - 1) : t[j][1] \in FmKeyLines}},
                content |-> StripText(SubSeq(t, close + 1, Len(t)))]

\* ---- MarkdownHeaderTextSplitter(headers_to_split_on, strip_headers=False)
\* header metadata is the stack of active headers, <<level, data>> by level
RECURSIVE PopHeaders(_, _)
PopHeaders(stack, level) ==
    IF Len(stack) > 0 /\ stack[Len(stack)][1] >= level
      THEN PopHeaders(SubSeq(stack, 1, Len(stack) - 1), level) ELSE stack

Segment(content, metadata) == [content |-> content, metadata |-> metadata]

\* the scan over the lines: st holds lines_with_metadata (out), current_content
\* (cur), current_metadata (cmd) and the header stack / initial_metadata
RECURSIVE HeaderScan(_, _, _)
HeaderScan(lines, k, st) ==
    IF k > Len(lines)
      THEN IF Len(st.cur) > 0 THEN Append(st.out, Segment(st.cur, st.cmd)) ELSE st.out
      ELSE
        LET line == lines[k]
            lvl == HeaderLevel(line)
            flushed == IF Len(st.cur) > 0
                         THEN Append(st.out, Segment(st.cur, st.cmd)) ELSE st.out
        IN  IF lvl > 0
              THEN LET stack == Append(PopHeaders(st.stack, lvl), <<lvl, HeaderData(line)>>)
                   IN  HeaderScan(lines, k + 1,
                           [out |-> flushed, cur |-> <<line>>, cmd |-> stack, stack |-> stack])
              ELSE IF ~IsBlank(line)
                THEN HeaderScan(lines, k + 1,
                         [st EXCEPT !.cur = Append(@, line), !.cmd = st.stack])
                ELSE HeaderScan(lines, k + 1,
                         [st EXCEPT !.out = flushed, !.cur = <<>>, !.cmd = st.stack])

\* content += "  \n" + more
JoinPadded(content, more) ==
    [content EXCEPT ![Len(content)] = <<@[1], 2>>] \o more

\* aggregate_lines_to_chunks: consecutive segments with equal metadata are
\* joined; a segment that ends in a header line is joined with a following
\* segment of deeper metadata
RECURSIVE AggregateLines(_, _, _)
AggregateLines(segs, k, agg) ==
    IF k > Len(segs) THEN agg
    ELSE
      LET seg == segs[k]
          n == Len(agg)
      IN  IF n > 0 /\ agg[n].metadata = seg.metadata
            THEN AggregateLines(segs, k + 1,
                    [agg EXCEPT ![n].content = JoinPadded(@, seg.content)])
            ELSE IF /\ n > 0
                    /\ Len(agg[n].metadata) < Len(seg.metadata)
                    /\ HeaderLevel(agg[n].content[Len(agg[n].content)]) > 0
              THEN AggregateLines(segs, k + 1,
                      [agg EXCEPT ![n] = Segment(JoinPadded(@.content, seg.content),
                                                    seg.metadata)])
              ELSE AggregateLines(segs, k + 1, Append(agg, seg))

\* TextChunker._split_on_headers (the splitter returning normally)
SplitOnHeaders(text) ==
    AggregateLines(
        HeaderScan(text, 1, [out |-> <<>>, cur |-> <<>>, cmd |-> <<>>, stack |-> <<>>]),
        1, <<>>)

\* ---- RecursiveCharacterTextSplitter(chunk_size, chunk_overlap, ["\n\n", "\n", " ", ""])
\* chunk_size / chunk_overlap given to TextChunker(...)
ChunkSize == 9
ChunkOverlap == 4

\* A split of a segment is a run of its lines a..b: the characters of line
\* a through line b, preceded for a > 1 by the "\n" before line a (the
\* separator is kept at the front of the split that follows it).  Every line
\* explored is shorter than chunk_size - 1, so that the separators " " and
\* "" only ever cut a split that is merged back whole.
Split(a, b) == [a |-> a, b |-> b]

\* line k as a split on "\n": one character longer for k > 1
LineSplitLen(content, k) == LineLen(content[k]) + (IF k > 1 THEN 1 ELSE 0)

\* len(split)
SplitLen(content, split) ==
    LET RECURSIVE Sum(_)
        Sum(k) == IF k > split.b THEN 0 ELSE LineSplitLen(content, k) + Sum(k + 1)
    IN  Sum(split.a)

\* `[s for s in splits if s != ""]`
NonEmptySplits(content, splits) ==
    SelectSeq(splits, LAMBDA split : SplitLen(content, split) > 0)

\* re.search("\n\n", text): the newline before and the newline after some
\* empty line
HasParagraphBreak(content) ==
    \E j \in 1..(Len(content) - 2) : LineLen(content[j + 1]) = 0

\* _split_text_with_regex(text, "\n\n", keep_separator=True): the matches
\* are taken left to right without overlap; j is the newline (the one after
\* line j) under examination, a the first line of the split being built
RECURSIVE ParagraphSplits(_, _, _, _)
ParagraphSplits(content, j, a, out) ==
    IF j > Len(content) - 2 THEN Append(out, Split(a, Len(content)))
    ELSE IF LineLen(content[j + 1]) = 0
      THEN ParagraphSplits(content, j + 2, j + 1, Append(out, Split(a, j)))
      ELSE ParagraphSplits(content, j + 1, a, out)

\* _split_text_with_regex(text, "\n", keep_separator=True) on lines a..b
LineSplits(content, a, b) ==
    NonEmptySplits(content, [k \in 1..(b - a + 1) |-> Split(a + k - 1, a + k - 1)])

\* the `while` of _merge_splits: drop splits from the front of the current
\* piece until it is within the overlap and the next split fits
RECURSIVE DropForOverlap(_, _, _, _, _)
DropForOverlap(content, splits, from, total, len) ==
    IF total > ChunkOverlap \/ (total + len > ChunkSize /\ total > 0)
      THEN DropForOverlap(content, splits, from + 1,
                          total - SplitLen(content, splits[from]), len)
      ELSE [from |-> from, total |-> total]

\* _join_docs: `text = "".join(docs).strip()`, the splits from..to joined
\* and stripped of outer whitespace; None (written <<>>) when nothing is left
JoinDocs(content, splits, from, to) ==
    LET text == StripText(SubSeq(content, splits[from].a, splits[to].b))
    IN  IF Len(text) = 0 THEN <<>>
        ELSE [text EXCEPT ![Len(text)] = <<@[1], 0>>]

\* `if doc is not None: docs.append(doc)`
AppendDoc(docs, doc) == IF doc = <<>> THEN docs ELSE Append(docs, doc)

\* _merge_splits(splits, "") (separator "", since the separator is kept):
\* from..k-1 is current_doc, total its length
RECURSIVE MergeSplits(_, _, _, _, _, _)
MergeSplits(content, splits, k, from, total, docs) ==
    IF k > Len(splits)
      THEN IF from < k THEN AppendDoc(docs, JoinDocs(content, splits, from, k - 1)) ELSE docs
      ELSE
        LET len == SplitLen(content, splits[k])
        IN  IF total + len > ChunkSize /\ from < k
              THEN LET d == DropForOverlap(content, splits, from, total, len)
                   IN  MergeSplits(content, splits, k + 1, d.from, d.total + len,
                           AppendDoc(docs, JoinDocs(content, splits, from, k - 1)))
              ELSE MergeSplits(content, splits, k + 1, from, total + len, docs)

MergeAll(content, splits) == MergeSplits(content, splits, 1, 1, 0, <<>>)

\* the loop of _split_text over the splits on "\n\n": good..k-1 are the
\* _good_splits collected; a split of chunk_size or more flushes them and
\* is itself split on "\n", the next separator, and merged
RECURSIVE SplitParagraphs(_, _, _, _, _)
SplitParagraphs(content, splits, k, good, final_chunks) ==
    LET merged == MergeAll(content, SubSeq(splits, good, k - 1))
    IN  IF k > Len(splits) THEN final_chunks \o merged
        ELSE IF SplitLen(content, splits[k]) < ChunkSize
          THEN SplitParagraphs(content, splits, k + 1, good, final_chunks)
          ELSE SplitParagraphs(content, splits, k + 1, k + 1,
                  final_chunks \o merged
                      \o MergeAll(content, LineSplits(content, splits[k].a, splits[k].b)))

\* RecursiveCharacterTextSplitter.split_text of one segment: the first
\* separator found in the text is used, "\n\n" before "\n"; a text of one
\* line is cut on " " or "" and merged back into the stripped line
RecursiveSplitSegment(content) ==
    IF HasParagraphBreak(content)
      THEN SplitParagraphs(content,
               NonEmptySplits(content, ParagraphSplits(content, 1, 1, <<>>)), 1, 1, <<>>)
      ELSE MergeAll(content, LineSplits(content, 1, Len(content)))

\* TextChunker._split_recursive: split_documents copies the segment's
\* metadata onto each of its pieces
RECURSIVE SplitRecursive(_)
SplitRecursive(documents) ==
    IF Len(documents) = 0 THEN <<>>
    ELSE LET pieces == RecursiveSplitSegment(documents[1].content)
         IN  [i \in 1..Len(pieces) |-> Segment(pieces[i], documents[1].metadata)]
                \o SplitRecursive(Tail(documents))

\* ---- TextChunker._enrich_metadata
IsAlnum(c) == c \in {"A", "b", "7", "a"}
Lower(c) == CASE c = "A" -> "a" [] c = "B" -> "b" [] c = "T" -> "t" [] OTHER -> c
Upper(c) == CASE c = "a" -> "A" [] c = "b" -> "B" [] c = "t" -> "T" [] OTHER -> c
IsCased(c) == c \in {"A", "a", "B", "b", "T", "t"}

\* Path(source_name).name for a name without path separators: "." names
\* the current directory and has no final component
FinalComponent(source_name) == IF source_name = <<".">> THEN <<>> ELSE source_name

\* Path(source_name).stem: `i = name.rfind(".")`, and name[:i] when the
\* last dot is neither the first nor the last character, else the name
Stem(source_name) ==
    LET name == FinalComponent(source_name)
        dots == {k \in 1..Len(name) : name[k] = "."}
        i == IF dots = {} THEN 0 ELSE CHOOSE k \in dots : \A j \in dots : j <= k
    IN  IF 1 < i /\ i < Len(name) THEN SubSeq(name, 1, i - 1) ELSE name

\* re.sub(r"[^a-zA-Z0-9]", "_", stem).lower()
SanitizeStem(stem) ==
    [k \in 1..Len(stem) |-> IF IsAlnum(stem[k]) THEN Lower(stem[k]) ELSE "_"]

\* a root id: its literal characters and, for the anonymous fallback, the
\* content whose digest follows them
RootOf(chars, hashed) == [chars |-> chars, hashed |-> hashed]

\* hashlib.md5(content.encode()).hexdigest()[:8], taken as collision-free:
\* the digest stands for the content it was computed from
Hash8(content) == content

MetaGet(meta, key, default) ==
    IF \E p \in meta : p[1] = key
      THEN (CHOOSE p \in meta : p[1] = key)[2] ELSE default

NoSource == <<"None">>

\* no root id: no chunk id was built
NoRootId == RootOf(<<>>, <<>>)

\* (mutation: the filename is consulted before the front-matter page id)
RootIdFilenameFirst(documents, yaml_meta, source_name) ==
    LET from_file == IF source_name # NoSource /\ source_name # <<>>
                       THEN SanitizeStem(Stem(source_name)) ELSE <<>>
        from_yaml == IF from_file = <<>> /\ (\E p \in yaml_meta : p[1] = "page_id")
                       THEN MetaGet(yaml_meta, "page_id", <<>>) ELSE from_file
    IN  IF from_yaml # <<>>
          THEN [ok |-> TRUE,
                root |-> IF Len(documents) = 0 THEN NoRootId ELSE RootOf(from_yaml, <<>>)]
        ELSE IF Len(documents) = 0 THEN [ok |-> FALSE, root |-> NoRootId]
        ELSE [ok |-> TRUE,
              root |-> RootOf(<<"a", "n", "o", "n", "_">>, Hash8(documents[1].content))]

\* lines 248-286: the root id the chunk ids of the documents are built
\* from (for an empty list the loop of line 283 builds no id, and nothing
\* returned carries a root), or the IndexError of documents[0] on an empty
\* list in the fallback branch
RootId(documents, yaml_meta, source_name) ==
    LET from_yaml == IF yaml_meta # {} /\ (\E p \in yaml_meta : p[1] = "page_id")
                       THEN MetaGet(yaml_meta, "page_id", <<>>) ELSE <<>>
        from_file == IF from_yaml = <<>> /\ source_name # NoSource /\ source_name # <<>>
                       THEN SanitizeStem(Stem(source_name)) ELSE from_yaml
    IN  IF from_file # <<>>
          THEN [ok |-> TRUE,
                root |-> IF Len(documents) = 0 THEN NoRootId ELSE RootOf(from_file, <<>>)]
        ELSE IF Len(documents) = 0 THEN [ok |-> FALSE, root |-> NoRootId]
        ELSE [ok |-> TRUE,
              root |-> RootOf(<<"a", "n", "o", "n", "_">>, Hash8(documents[1].content))]

\* header_context: the header texts of the piece, top level first
HeaderContext(metadata) == [k \in 1..Len(metadata) |-> metadata[k][2]]

\* stem.replace("-", " ").replace("_", " ").title(): a cased character is
\* upper case after an uncased one (or at the start), lower case otherwise
TitleOfStem(stem) ==
    LET spaced == [k \in 1..Len(stem) |-> IF stem[k] \in {"-", "_"} THEN " " ELSE stem[k]]
    IN  [k \in 1..Len(spaced) |->
            IF k = 1 \/ ~IsCased(spaced[k - 1]) THEN Upper(spaced[k]) ELSE Lower(spaced[k])]

UnknownDocument ==
    <<"U", "n", "k", "n", "o", "w", "n", " ", "D", "o", "c", "u", "m", "e", "n", "t">>
DocumentLibrary ==
    <<"D", "o", "c", "u", "m", "e", "n", "t", " ", "L", "i", "b", "r", "a", "r", "y">>

\* str(doc_last_updated).split("T")[0].split(" ")[0]
DateOf(last_updated) ==
    LET cut == {k \in 1..Len(last_updated) : last_updated[k] \in {"T", " "}}
    IN  IF cut = {} THEN last_updated
        ELSE SubSeq(last_updated, 1, (CHOOSE k \in cut : \A j \in cut : k <= j) - 1)

\* lines 236-275: what the front-matter and the file name say about the
\* document; an absent or empty value is <<>>
DocInfo(yaml_meta, source_name) ==
    LET yaml_id == IF \E p \in yaml_meta : p[1] = "page_id"
                     THEN MetaGet(yaml_meta, "page_id", <<>>) ELSE <<>>
        from_file == yaml_id = <<>> /\ source_name # NoSource /\ source_name # <<>>
    IN  [title |-> IF from_file THEN TitleOfStem(Stem(source_name))
                   ELSE MetaGet(yaml_meta, "title", UnknownDocument),
         parent |-> IF from_file THEN DocumentLibrary
                    ELSE MetaGet(yaml_meta, "parent", <<>>),
         path |-> MetaGet(yaml_meta, "path", <<>>),
         version |-> MetaGet(yaml_meta, "version", <<>>),
         last_updated |-> DateOf(MetaGet(yaml_meta, "last_updated", <<>>))]

\* " > ".join(header_context)
RECURSIVE JoinHeaders(_)
JoinHeaders(header_context) ==
    IF Len(header_context) = 0 THEN <<>>
    ELSE IF Len(header_context) = 1 THEN <<header_context[1]>>
    ELSE <<header_context[1], " ", ">", " ">> \o JoinHeaders(Tail(header_context))

\* one line f"{label}: {value}" of the context
ContextPart(label, value) == [label |-> label, value |-> value]

\* lines 289-313: context_parts, the lines of the context string
ContextParts(info, header_context) ==
    <<ContextPart("Source",
          IF info.path # <<>> THEN info.path
          ELSE IF info.parent # <<>> THEN info.parent \o <<" ", "/", " ">> \o info.title
          ELSE info.title)>>
      \o (IF info.version # <<>> THEN <<ContextPart("Version", info.version)>> ELSE <<>>)
      \o (IF info.last_updated # <<>>
            THEN <<ContextPart("Last Updated", info.last_updated)>> ELSE <<>>)
      \o (IF Len(header_context) > 0
            THEN <<ContextPart("Headers", JoinHeaders(header_context))>> ELSE <<>>)

\* new_content = f"Context:\n{context_str}\n---\n{doc.page_content}": the
\* context lines, then the content the piece had
EnrichedContent(context_parts, content) ==
    [context_parts |-> context_parts, content |-> content]

\* (mutation: the enumerate index is used as it is)
ChunkNumberZeroBased(i) == i

\* the number in f"{doc_root_id}_chunk_{i+1}", i being the enumerate index
ChunkNumber(i) == i + 1

\* (mutation: the chunker keeps counting over the chunks the run has
\* collected from the files before)
ChunkIdCountedOverRun(doc_root_id, i) ==
    [root |-> doc_root_id, n |-> Len(run.all_chunks) + ChunkNumber(i)]

\* line 286: chunk_id = f"{doc_root_id}_chunk_{i+1}"
ChunkId(doc_root_id, i) == [root |-> doc_root_id, n |-> ChunkNumber(i)]

\* lines 283-338: one enriched chunk per document, in order;
\* id = f"{doc_root_id}_chunk_{i+1}"
EnrichMetadata(documents, yaml_meta, source_name) ==
    LET r == RootId(documents, yaml_meta, source_name)
    IN  IF ~r.ok
          THEN [ok |-> FALSE, exc |-> Exc("IndexError", FALSE, 0), chunks |-> <<>>]
          ELSE [ok |-> TRUE, exc |-> NoExc,
                chunks |-> [i \in 1..Len(documents) |->
                    LET header_context == HeaderContext(documents[i].metadata)
                        new_content ==
                            EnrichedContent(
                                ContextParts(DocInfo(yaml_meta, source_name), header_context),
                                documents[i].content)
                    IN  [id |-> ChunkId(r.root, i - 1),
                         headers |-> header_context,
                         text |-> new_content,
                         original_content |-> documents[i].content,
                         page_content |-> new_content]]]

\* TextChunker.split_text: front-matter, header split, recursive split,
\* enrichment; an exception of any stage is logged and re-raised
SplitText(text, source_name) ==
    LET post == FrontmatterLoads(text)
        header_splits == SplitOnHeaders(post.content)
        recursive_chunks == SplitRecursive(header_splits)
    IN  EnrichMetadata(recursive_chunks, post.metadata, source_name)

\* (mutation: the fallback returns no segment at all)
HeaderFallbackEmpty(text) == <<>>

\* _split_on_headers lines 124-127: the splitter raised; the failure is
\* logged and [Document(page_content=text)] returned
HeaderFallback(text) == <<Segment(text, <<>>)>>

\* _split_on_headers with a splitter that raises (fails) or returns
SplitOnHeadersWith(text, fails) ==
    IF fails THEN HeaderFallback(text) ELSE SplitOnHeaders(text)

\* (mutation: the failure is logged and an empty chunk list returned)
StageFailureReturnsEmpty(e, header_splits) ==
    [ok |-> TRUE, exc |-> NoExc, chunks |-> <<>>, header_splits |-> header_splits]

\* split_text lines 101-103: `except Exception as e: logger.error(...); raise e`
StageFailure(e, header_splits) ==
    [ok |-> FALSE, exc |-> e, chunks |-> <<>>, header_splits |-> header_splits]

\* the stages that can be made to raise, and what each raises
FaultStages == {"frontmatter", "headers", "recursive"}
FaultExc(stage) == Exc(stage, FALSE, 0)

\* split_text with the stages in faults raising when they are reached.  The
\* result also shows what the header-split step handed on.
SplitTextWith(text, source_name, faults) ==
    IF "frontmatter" \in faults
      THEN StageFailure(FaultExc("frontmatter"), <<>>)
      ELSE LET post == FrontmatterLoads(text)
               header_splits == SplitOnHeadersWith(post.content, "headers" \in faults)
           IN  IF "recursive" \in faults
                 THEN StageFailure(FaultExc("recursive"), header_splits)
                 ELSE LET r == EnrichMetadata(SplitRecursive(header_splits),
                                              post.metadata, source_name)
                      IN  IF r.ok
                            THEN [ok |-> TRUE, exc |-> NoExc, chunks |-> r.chunks,
                                  header_splits |-> header_splits]
                            ELSE StageFailure(r.exc, header_splits)

\* the fault combinations explored
FaultSets == {{}, {"frontmatter"}, {"headers"}, {"recursive"}, {"headers", "recursive"}}

\* longest document body explored, in lines
MaxBodyLines == 4

\* the front-matter blocks explored: none, empty, title only, page id (with title)
FrontMatters ==
    {<<>>,
     <<FmBoundary, FmBoundary>>,
     <<FmBoundary, Line("title: T"), FmBoundary>>,
     <<FmBoundary, Line("title: T"), Line("page_id: 7"), FmBoundary>>}

SourceNames ==
    {NoSource, <<"A", "-", "b", ".", "b">>, <<"a", "_", "b", ".", "b">>,
     <<"a", ".", "b", ".">>, <<".">>}

InitChunk ==
    /\ \E fm \in FrontMatters, body \in SeqsUpTo({Line(t) : t \in BodyTokens}, MaxBodyLines),
          name \in SourceNames :
       \E faults \in FaultSets :
          chk = [status |-> "called", text |-> fm \o body, source_name |-> name,
                 faults |-> faults, header_splits |-> <<>>,
                 chunks |-> <<>>, exc |-> NoExc]
    /\ rt = Idle
    /\ emb = Idle
    /\ ups = Idle
    /\ events = <<>>
    /\ run = Idle
    /\ pl = Idle
    /\ tool = Idle
    /\ nrm = Idle
    /\ crawl = Idle
    /\ rag = Idle

\* split_text returns its chunk list
SplitTextReturns ==
    /\ chk.status = "called"
    /\ LET r == SplitTextWith(chk.text, chk.source_name, chk.faults)
       IN  r.ok /\ chk' = [chk EXCEPT !.status = "returned", !.chunks = r.chunks,
                                      !.header_splits = r.header_splits]
    /\ UNCHANGED <<rt, emb, ups, events, rag, run, pl, tool, nrm, crawl>>

\* split_text logs and re-raises the exception of a stage
SplitTextRaises ==
    /\ chk.status = "called"
    /\ LET r == SplitTextWith(chk.text, chk.source_name, chk.faults)
       IN  ~r.ok /\ chk' = [chk EXCEPT !.status = "raised", !.exc = r.exc,
                                       !.header_splits = r.header_splits]
    /\ UNCHANGED <<rt, emb, ups, events, rag, run, pl, tool, nrm, crawl>>

NextChunk == SplitTextReturns \/ SplitTextRaises

SpecChunk == InitChunk /\ [][NextChunk]_vars

\* ======================================================================
\* KnowledgeBasePipeline.run
\* ======================================================================
\* number of characters of a text given as lines
RECURSIVE TextChars(_)
TextChars(lines) ==
    IF Len(lines) = 0 THEN 0
    ELSE LineLen(lines[1]) + (IF Len(lines) > 1 THEN 1 ELSE 0) + TextChars(Tail(lines))

LabelLen(label) ==
    CASE label = "Source"       -> 6
      [] label = "Version"      -> 7
      [] label = "Last Updated" -> 12
      [] OTHER                  -> 7

\* number of characters of "\n".join(context_parts)
RECURSIVE ContextChars(_)
ContextChars(context_parts) ==
    IF Len(context_parts) = 0 THEN 0
    ELSE LabelLen(context_parts[1].label) + 2 + Len(context_parts[1].value)
           + (IF Len(context_parts) > 1 THEN 1 ELSE 0) + ContextChars(Tail(context_parts))

\* number of characters of an enriched text: "Context:\n", the context
\* string, "\n---\n" and the content
EnrichedChars(enriched) ==
    9 + ContextChars(enriched.context_parts) + 5 + TextChars(enriched.content)

\* the Document split_text hands on for one chunk: metadata['id'] and
\* page_content (the enriched text since text_chunker.py line 335), as
\* upsert_to_vector_db reads them
DocumentOf(chunk) ==
    [content |-> chunk.page_content, id |-> <<"doc_chunk", chunk.id>>]

\* the text an embedder is given for a Document: its page_content
EmbedTextOf(chunk) == EnrichedChars(chunk.page_content)

\* the two entry points that ingest documents into the index:
\* KnowledgeBasePipeline.run on a directory of markdown files, and
\* PDF_to_KB_Pipeline on a list of PDF file names
Pipelines == {"run", "PDF_to_KB_Pipeline"}

\* the files of a pass: a name and the markdown text read for it (for
\* PDF_to_KB_Pipeline the text of PROCESSED_DATA_DIR/<stem>.md, which is
\* the saved conversion when the file was absent); the names explored
\* differ only in case and in "-" versus "_"
FileNames == {<<"A", "-", "b", ".", "b">>, <<"a", "_", "b", ".", "b">>}

\* longest file body explored, in lines
MaxFileLines == 3

\* the lines of a file body
FileTokens == {"# A", "text"}

FileTexts ==
    {fm \o body : fm \in {<<>>, <<FmBoundary, Line("title: T"), Line("page_id: 7"), FmBoundary>>},
                  body \in SeqsUpTo({Line(t) : t \in FileTokens}, MaxFileLines)}

File(name, text) == [name |-> name, text |-> text]

\* one file, or two files with different names
FileLists ==
    {<<File(n, t)>> : n \in FileNames, t \in FileTexts}
        \cup {<<File(n[1], t1), File(n[2], t2)>> :
                 n \in {p \in FileNames \X FileNames : p[1] # p[2]},
                 t1 \in FileTexts, t2 \in FileTexts}

\* the source_name split_text is given: md_path.name in run
\* (knowledge_base_pipeline.py line 124), Path(pdf_file_name).stem in
\* PDF_to_KB_Pipeline (PDF_to_KB.py lines 48 and 64)
SourceNameGiven(pipeline, file_name) ==
    IF pipeline = "run" THEN file_name ELSE Stem(file_name)

\* the order in which a pipeline starts its stages: _embed_and_upsert
\* lines 313-353; PDF_to_KB.py lines 74-101
StageOrder(pipeline) ==
    IF pipeline = "run" THEN <<"index", "dense", "sparse", "upsert">>
    ELSE <<"dense", "sparse", "index", "upsert">>

\* the stages started when `stage` is the one that fails
StagesUpTo(pipeline, stage) ==
    LET order == StageOrder(pipeline)
    IN  SubSeq(order, 1, CHOOSE k \in 1..Len(order) : order[k] = stage)

\* started: the stages of the pass started so far; written: the ids of
\* the records the pass has passed to index.upsert; prev_*: what the
\* first pass left, kept for the comparison with the second
RunEnter(pipeline, files, pass, store) ==
    [status |-> "chunking", pipeline |-> pipeline, files |-> files, k |-> 1,
     all_chunks |-> <<>>, owners |-> <<>>, error_files |-> <<>>, pass |-> pass,
     store |-> store, started |-> <<>>, written |-> {},
     prev_files |-> <<>>, prev_docs |-> {}, prev_written |-> {}, prev_store |-> {},
     exc |-> NoExc]

InitRun ==
    /\ \E pipeline \in Pipelines, files \in FileLists :
          run = RunEnter(pipeline, files, 1, {})
    /\ rt = Idle
    /\ emb = Idle
    /\ ups = Idle
    /\ chk = Idle
    /\ rag = Idle
    /\ events = <<>>
    /\ pl = Idle
    /\ tool = Idle
    /\ nrm = Idle
    /\ crawl = Idle

\* knowledge_base_pipeline.py lines 109-140: one iteration of the file
\* loop of run on markdown sources; the file is read and chunked under its
\* name; an exception puts it on error_files, an empty chunk list is
\* passed over, otherwise the chunks join all_chunks
RunChunkFile ==
    /\ run.pipeline = "run"
    /\ run.status = "chunking" /\ run.k <= Len(run.files)
    /\ LET f == run.files[run.k]
           r == SplitText(f.text, SourceNameGiven(run.pipeline, f.name))
       IN  run' = IF ~r.ok
                    THEN [run EXCEPT !.k = @ + 1, !.error_files = Append(@, f.name)]
                    ELSE [run EXCEPT !.k = @ + 1,
                                     !.all_chunks = @ \o r.chunks,
                                     !.owners = @ \o [i \in 1..Len(r.chunks) |-> run.k]]
    /\ UNCHANGED <<rt, events, emb, ups, chk, rag, pl, tool, nrm, crawl>>

\* PDF_to_KB.py lines 47-66: one iteration of the file loop; the markdown
\* file is read (after the conversion was saved to it, if it was absent)
\* and chunked under the stem of the PDF name; the chunks, none included,
\* join all_chunks; an exception of split_text leaves the pipeline
PdfChunkFile ==
    /\ run.pipeline = "PDF_to_KB_Pipeline"
    /\ run.status = "chunking" /\ run.k <= Len(run.files)
    /\ LET f == run.files[run.k]
           r == SplitText(f.text, SourceNameGiven(run.pipeline, f.name))
       IN  run' = IF ~r.ok
                    THEN [run EXCEPT !.status = "raised", !.exc = r.exc]
                    ELSE [run EXCEPT !.k = @ + 1,
                                     !.all_chunks = @ \o r.chunks,
                                     !.owners = @ \o [i \in 1..Len(r.chunks) |-> run.k]]
    /\ UNCHANGED <<rt, events, emb, ups, chk, rag, pl, tool, nrm, crawl>>

\* classes of what the PDF loader raises
LoaderErrors == {"Exception", "ValueError"}

\* what the conversion of a PDF raises: FileNotFoundError when the PDF is
\* missing, RuntimeError from the loader's exception
\* (pdf_to_markdown_converter.py lines 34-50), the IndexError of
\* document[0] when the loader returned an empty list (PDF_to_KB.py line
\* 55), or the exception of the write, re-raised by save_markdown_file
\* (lines 73-75)
ConversionErrors ==
    {Exc("FileNotFoundError", FALSE, 0), Exc("IndexError", FALSE, 0),
     Exc("OSError", FALSE, 0)}
        \cup {[Exc("RuntimeError", FALSE, 0) EXCEPT !.cause = c] : c \in LoaderErrors}

\* PDF_to_KB.py lines 53-56: the markdown file is absent and the conversion
\* raises; nothing catches the exception
PdfConvertFails ==
    /\ run.pipeline = "PDF_to_KB_Pipeline"
    /\ run.status = "chunking" /\ run.k <= Len(run.files)
    /\ \E e \in ConversionErrors :
          run' = [run EXCEPT !.status = "raised", !.exc = e]
    /\ UNCHANGED <<rt, events, emb, ups, chk, rag, pl, tool, nrm, crawl>>

\* knowledge_base_pipeline.py lines 142-147: no file gave a chunk
RunNoChunks ==
    /\ run.pipeline = "run"
    /\ run.status = "chunking" /\ run.k > Len(run.files)
    /\ run.all_chunks = <<>>
    /\ run' = [run EXCEPT !.status = "raised", !.exc = Exc("ValueError", FALSE, 0)]
    /\ UNCHANGED <<rt, events, emb, ups, chk, rag, pl, tool, nrm, crawl>>

\* the records written for all_chunks when no stage fails: both embeddings
\* of every chunk, zipped with the chunks by upsert_to_vector_db
RunRecords(all_chunks) ==
    LET texts == [i \in 1..Len(all_chunks) |-> EmbedTextOf(all_chunks[i])]
    IN  BuildRecords([i \in 1..Len(all_chunks) |-> DocumentOf(all_chunks[i])],
                     Normalize(ProviderEmbed("dense", texts), "dense"),
                     Normalize(ProviderEmbed("sparse", texts), "sparse"))

\* the index after the write batches of records, from position i on
RECURSIVE StoreAfterWrites(_, _, _)
StoreAfterWrites(store, records, i) ==
    IF i >= Len(records) THEN store
    ELSE StoreAfterWrites(StoreAfter(store, WriteBatch(records, i)), records,
                          i + PINECONE_UPSERT_MAX_BATCH_SIZE)

\* the records of the first `written` write batches
FirstWrites(records, written) ==
    SubSeq(records, 1, Min(Len(records), written * PINECONE_UPSERT_MAX_BATCH_SIZE))

\* the index after the first `written` write batches of records
StoreAfterFirstWrites(store, records, written) ==
    StoreAfterWrites(store, FirstWrites(records, written), 0)

\* the ids of the records passed to index.upsert
RecordIds(records) == {records[k].id : k \in 1..Len(records)}

\* the pass after every stage returned: the records are in the index
EmbedAndUpsertReturns(r) ==
    [r EXCEPT !.status = "returned",
              !.started = StageOrder(r.pipeline),
              !.store = StoreAfterWrites(@, RunRecords(r.all_chunks), 0),
              !.written = RecordIds(RunRecords(r.all_chunks))]

\* the pass after `stage` raised the exception e, `written` write batches
\* having gone through
EmbedAndUpsertRaises(r, stage, e, written) ==
    LET records == RunRecords(r.all_chunks)
    IN  [r EXCEPT !.status = "raised", !.exc = e,
                  !.started = StagesUpTo(r.pipeline, stage),
                  !.store = StoreAfterFirstWrites(@, records, written),
                  !.written = RecordIds(FirstWrites(records, written))]

\* knowledge_base_pipeline.py lines 142-160: the chunks are exported
\* (_export_chunks writes a file outside the state kept here, and logs a
\* failure of the export without raising), embedded and upserted, and run
\* returns all_chunks
RunEmbedAndUpsert ==
    /\ run.pipeline = "run"
    /\ run.status = "chunking" /\ run.k > Len(run.files)
    /\ run.all_chunks # <<>>
    /\ run' = EmbedAndUpsertReturns(run)
    /\ UNCHANGED <<rt, events, emb, ups, chk, rag, pl, tool, nrm, crawl>>

\* PDF_to_KB.py lines 74-101: the chunks (possibly none) are embedded, the
\* index is checked or created, and the records are upserted
PdfEmbedAndUpsert ==
    /\ run.pipeline = "PDF_to_KB_Pipeline"
    /\ run.status = "chunking" /\ run.k > Len(run.files)
    /\ run' = EmbedAndUpsertReturns(run)
    /\ UNCHANGED <<rt, events, emb, ups, chk, rag, pl, tool, nrm, crawl>>

\* the stages of an ingestion, each of which may fail; with no chunk the
\* embedders submit nothing and cannot fail
EmbedAndUpsertStages(all_chunks) ==
    IF all_chunks = <<>> THEN {"index", "upsert"}
    ELSE {"index", "dense", "sparse", "upsert"}

\* create_vector_db_index lines 24-27: whatever create_index raised is
\* logged and replaced by RuntimeError("Error creating vector database
\* index: ..."); line 27 raises without `from`, so the new exception has
\* no __cause__
CreateIndexError(e) == [e EXCEPT !.cls = "RuntimeError", !.cause = "none"]

\* what an embedder lets out for n texts (the submission at which it was
\* raised is not kept here): the RuntimeError built `from` an exception of
\* a first submission that is not the provider's, naming the batch; the
\* provider's own exception, of a first submission or of the resubmissions;
\* the ConnectionError of a resubmission, which the batch loop lets through
EmbedderErrors(mode, n) ==
    {WrapBatchError(Exc("ConnectionError", FALSE, 0), b, TotalBatches(n, BatchSize(mode))) :
        b \in 1..TotalBatches(n, BatchSize(mode))}
      \cup {Exc("ConnectionError", FALSE, 0)}
      \cup {Exc(ProviderClass(mode), rate, 0) : rate \in BOOLEAN}

\* what a failing stage raises: the exception of has_index or of pc.Index
\* on the created index, or the RuntimeError of create_vector_db_index; what
\* the embedder lets out; whatever pc.Index or index.upsert raised in
\* upsert_to_vector_db
StageErrors(stage, all_chunks) ==
    CASE stage = "index"  ->
             {Exc(c, FALSE, 0) : c \in IndexQueryErrors}
               \cup {CreateIndexError(Exc(c, FALSE, 0)) : c \in IndexQueryErrors}
      [] stage = "dense"  -> EmbedderErrors("dense", Len(all_chunks))
      [] stage = "sparse" -> EmbedderErrors("sparse", Len(all_chunks))
      [] OTHER            -> {Exc(c, FALSE, 0) : c \in IndexWriteErrors}

\* the write batches that can have been written when a stage fails: only
\* index.upsert, failing on a later batch, leaves earlier batches in the
\* index, whatever the class of its exception; pc.Index fails before any
\* write, also when there is no record
WrittenBefore(stage, records) ==
    IF stage = "upsert" /\ Len(records) > 0
      THEN 0..(CeilDiv(Len(records), PINECONE_UPSERT_MAX_BATCH_SIZE) - 1)
      ELSE {0}

\* knowledge_base_pipeline.py line 157: _embed_and_upsert raises (the index
\* check, an embedding or the write failed); the exception leaves run, and
\* the batches written before a failed write stay in the index
RunEmbedAndUpsertFails ==
    /\ run.pipeline = "run"
    /\ run.status = "chunking" /\ run.k > Len(run.files)
    /\ run.all_chunks # <<>>
    /\ \E stage \in EmbedAndUpsertStages(run.all_chunks) :
       \E e \in StageErrors(stage, run.all_chunks),
          written \in WrittenBefore(stage, RunRecords(run.all_chunks)) :
          run' = EmbedAndUpsertRaises(run, stage, e, written)
    /\ UNCHANGED <<rt, events, emb, ups, chk, rag, pl, tool, nrm, crawl>>

\* PDF_to_KB.py lines 74-101: an embedder, the index check or creation
\* (lines 85-92, `raise e`) or upsert_to_vector_db raises; nothing catches
\* the exception, and the batches written before a failed write stay in
\* the index
PdfEmbedAndUpsertFails ==
    /\ run.pipeline = "PDF_to_KB_Pipeline"
    /\ run.status = "chunking" /\ run.k > Len(run.files)
    /\ \E stage \in EmbedAndUpsertStages(run.all_chunks) :
       \E e \in StageErrors(stage, run.all_chunks),
          written \in WrittenBefore(stage, RunRecords(run.all_chunks)) :
          run' = EmbedAndUpsertRaises(run, stage, e, written)
    /\ UNCHANGED <<rt, events, emb, ups, chk, rag, pl, tool, nrm, crawl>>

\* the ids of all_chunks, in order
ChunkIds(all_chunks) == [i \in 1..Len(all_chunks) |-> all_chunks[i].id]

\* per file of the pass, the ids of the chunks it gave, in order
DocIds(r) ==
    {[name |-> r.files[k].name,
      ids |-> LET own == {i \in 1..Len(r.all_chunks) : r.owners[i] = k}
                  first == IF own = {} THEN 1 ELSE CHOOSE i \in own : \A j \in own : i <= j
              IN  [n \in 1..Cardinality(own) |-> r.all_chunks[first + n - 1].id]] :
        k \in 1..Len(r.files)}

\* the orders in which the same files can be listed again: glob gives no
\* order (knowledge_base_pipeline.py line 216), and specific_files and
\* pdf_file_names are the caller's lists
Reorderings(files) ==
    {[k \in 1..Len(files) |-> files[p[k]]] :
        p \in {q \in [1..Len(files) -> 1..Len(files)] :
                  \A i, j \in 1..Len(files) : q[i] = q[j] => i = j}}

\* the same pipeline is called again on the same files and the same index
RunAgain ==
    /\ run.status = "returned" /\ run.pass = 1
    /\ \E files \in Reorderings(run.files) :
          run' = [RunEnter(run.pipeline, files, 2, run.store)
                    EXCEPT !.prev_files = run.files, !.prev_docs = DocIds(run),
                           !.prev_written = run.written, !.prev_store = run.store]
    /\ UNCHANGED <<rt, events, emb, ups, chk, rag, pl, tool, nrm, crawl>>

NextRun ==
    \/ RunChunkFile
    \/ PdfChunkFile
    \/ PdfConvertFails
    \/ RunNoChunks
    \/ RunEmbedAndUpsert
    \/ RunEmbedAndUpsertFails
    \/ PdfEmbedAndUpsert
    \/ PdfEmbedAndUpsertFails
    \/ RunAgain

SpecRun == InitRun /\ [][NextRun]_vars

\* ======================================================================
\* PerformRagTool._run
\* ======================================================================
\* top_k=5, the literal of the index.query call
TOOL_TOP_K == 5

\* a ScoredVector of response.matches: score in hundredths (0 stands for a
\* falsy score) and the 'text' entry of its metadata ("none" when absent)
ScoredVector(score, text) == [score |-> score, text |-> text]

\* response.matches explored
ToolMatchLists ==
    {<<>>,
     <<ScoredVector(89, "chunk a")>>,
     <<ScoredVector(89, "chunk a"), ScoredVector(75, "chunk b")>>,
     <<ScoredVector(0, "chunk a"), ScoredVector(75, "none")>>}

\* _format_results: one block per match, the score with two decimals or
\* "N/A", the metadata text or the default message; blocks joined in order
FormatResults(matches) ==
    [i \in 1..Len(matches) |->
        [score |-> IF matches[i].score # 0 THEN matches[i].score ELSE "N/A",
         content |-> IF matches[i].text # "none" THEN matches[i].text
                     ELSE "No content available."]]

\* f"Error performing RAG search: {e}"
ErrorString(e) == <<"Error performing RAG search: ", e.cls>>

NoString == <<"no value">>

ToolEnter(user_query) ==
    [status |-> "dense", user_query |-> user_query, dense_vector |-> <<>>,
     stage |-> "none", result |-> NoString, exc |-> NoExc]

InitTool ==
    /\ \E q \in QueryLengths : tool = ToolEnter(q)
    /\ rt = Idle
    /\ emb = Idle
    /\ ups = Idle
    /\ chk = Idle
    /\ rag = Idle
    /\ events = <<>>
    /\ run = Idle
    /\ pl = Idle
    /\ nrm = Idle
    /\ crawl = Idle

\* lines 64-66 and 72-73: the (truncated) query is embedded by the query
\* client, then embed_sparse_query enters _create_embeddings with [user_query]
ToolDenseQueryOk ==
    /\ tool.status = "dense"
    /\ LET text == TruncateQuery(tool.user_query)
       IN  /\ events' = Append(events, EmbedQueryEv(text, NoExc))
           /\ tool' = [tool EXCEPT !.status = "sparse", !.dense_vector = DenseQueryVector(text)]
    /\ emb' = CreateEmbeddingsEnter("sparse", <<tool.user_query>>)
    /\ UNCHANGED <<rt, ups, chk, rag, run, pl, nrm, crawl>>

\* lines 68-70: the dense failure is logged and `raise e` re-raises it
ToolDenseQueryFails ==
    /\ tool.status = "dense"
    /\ \E c \in DenseQueryErrors :
          LET e == Exc(c, FALSE, 1)
          IN  /\ events' = Append(events, EmbedQueryEv(TruncateQuery(tool.user_query), e))
              /\ tool' = [tool EXCEPT !.status = "raised", !.stage = "dense", !.exc = e]
    /\ UNCHANGED <<rt, emb, ups, chk, rag, run, pl, nrm, crawl>>

\* lines 80-82: embed_sparse_query raised; logged and re-raised
ToolSparseQueryFails ==
    /\ tool.status = "sparse" /\ emb.status = "raised"
    /\ tool' = [tool EXCEPT !.status = "raised", !.stage = "sparse", !.exc = emb.exc]
    /\ UNCHANGED <<rt, events, emb, ups, chk, rag, run, pl, nrm, crawl>>

\* line 84, outside any try: pc_client.Index(index_name) raises
ToolIndexFails ==
    /\ tool.status = "sparse" /\ emb.status = "returned"
    /\ \E c \in IndexQueryErrors :
          tool' = [tool EXCEPT !.status = "raised", !.stage = "index", !.exc = Exc(c, FALSE, 1)]
    /\ events' = Append(events, IndexEv)
    /\ UNCHANGED <<rt, emb, ups, chk, rag, run, pl, nrm, crawl>>

\* lines 84-104: the index is opened and queried once with top_k=5;
\* `return self._format_results(matches)`
ToolQueryOk ==
    /\ tool.status = "sparse" /\ emb.status = "returned"
    /\ \E m \in ToolMatchLists :
          /\ events' = events \o <<IndexEv,
                           QueryEv(TOOL_TOP_K, tool.dense_vector, CurrSparse(ListValue(emb.result)), m, NoExc)>>
          /\ tool' = [tool EXCEPT !.status = "returned", !.result = FormatResults(m)]
    /\ UNCHANGED <<rt, emb, ups, chk, rag, run, pl, nrm, crawl>>

\* lines 106-111: the failure is logged and
\* `return f"Error performing RAG search: {e}"` hands a string to the caller
ToolQueryFailure(t, e) ==
    [t EXCEPT !.status = "returned", !.stage = "query", !.result = ErrorString(e)]

\* index.query raises
ToolQueryFails ==
    /\ tool.status = "sparse" /\ emb.status = "returned"
    /\ \E c \in IndexQueryErrors :
          LET e == Exc(c, FALSE, 1)
          IN  /\ events' = events \o <<IndexEv,
                               QueryEv(TOOL_TOP_K, tool.dense_vector, CurrSparse(ListValue(emb.result)),
                                       NoMatches, e)>>
              /\ tool' = ToolQueryFailure(tool, e)
    /\ UNCHANGED <<rt, emb, ups, chk, rag, run, pl, nrm, crawl>>

\* _run; the sparse embedding of [user_query] runs the loop of
\* _create_embeddings (one batch, so never the empty-input path)
NextTool ==
    \/ ToolDenseQueryOk
    \/ ToolDenseQueryFails
    \/ SubmitBatchOk
    \/ SubmitBatchRateLimited
    \/ SubmitBatchProviderError
    \/ SubmitBatchOtherError
    \/ ResubmitOk
    \/ ResubmitRateLimited
    \/ ResubmitProviderError
    \/ ResubmitOtherError
    \/ ToolSparseQueryFails
    \/ ToolIndexFails
    \/ ToolQueryOk
    \/ ToolQueryFails

SpecTool == InitTool /\ [][NextTool]_vars

\* ======================================================================
\* URLtoMarkdownConverter.scrape_tree / recursively_crawl_tree
\* ======================================================================
\* page ids of the page graphs explored; the crawl starts at RootPage
Pages == {"10", "20", "30"}
RootPage == "10"

\* most child pages one page has
MaxChildren == 2

\* the child lists a page may have: pages in some order, none twice
ChildLists ==
    {l \in SeqsUpTo(Pages, MaxChildren) : \A i, j \in 1..Len(l) : i # j => l[i] # l[j]}

\* a page graph: for every page id the list the API returns for
\* /content/{id}/child/page (a page may list itself, its parent or a page
\* that another page lists too)
PageGraphs == [Pages -> ChildLists]

\* time.sleep(0.2) between a child's processing and the descent into it
CRAWL_SLEEP_MS == 200

\* one activation of recursively_crawl_tree(parent_id, ancestors): at its
\* visited check ("enter") or inside `for child in children` ("loop")
Frame(parent_id, ancestors) ==
    [parent_id |-> parent_id, ancestors |-> ancestors, phase |-> "enter",
     children |-> <<>>, idx |-> 1]

\* processor.process_page(child_data=page, ancestors=ancestors, ...)
ProcessPage(page_id, ancestors) == [id |-> page_id, ancestors |-> ancestors]

\* a new converter (visited_ids = set()) on which scrape_tree(RootPage) is called
InitCrawl ==
    /\ \E g \in PageGraphs :
          crawl = [status |-> "start", graph |-> g, visited_ids |-> {},
                   stack |-> <<>>, fetched |-> <<>>, processed |-> <<>>]
    /\ rt = Idle
    /\ emb = Idle
    /\ ups = Idle
    /\ chk = Idle
    /\ rag = Idle
    /\ events = <<>>
    /\ run = Idle
    /\ pl = Idle
    /\ tool = Idle
    /\ nrm = Idle

CrawlTop == crawl.stack[Len(crawl.stack)]

\* the activation on top of the stack returns to its caller; when it was the
\* call made by scrape_tree, scrape_tree returns
CrawlReturn(c) ==
    LET rest == SubSeq(c.stack, 1, Len(c.stack) - 1)
    IN  [c EXCEPT !.stack = rest,
                  !.status = IF rest = <<>> THEN "done" ELSE @]

\* scrape_tree lines 70-72 and 89-90: the root request fails, the crawl is
\* aborted
ScrapeTreeRootMissing ==
    /\ crawl.status = "start"
    /\ crawl' = [crawl EXCEPT !.status = "done"]
    /\ UNCHANGED <<rt, events, emb, ups, chk, rag, run, pl, tool, nrm>>

\* scrape_tree lines 72-88: the root page is processed with no ancestors,
\* then recursively_crawl_tree(root_id, [root]) is called
ScrapeTreeRoot ==
    /\ crawl.status = "start"
    /\ crawl' = [crawl EXCEPT !.status = "crawling",
                              !.processed = <<ProcessPage(RootPage, <<>>)>>,
                              !.stack = <<Frame(RootPage, <<RootPage>>)>>]
    /\ UNCHANGED <<rt, events, emb, ups, chk, rag, run, pl, tool, nrm>>

\* lines 114-115: `if parent_id in self.visited_ids: return`
CrawlAlreadyVisited ==
    /\ crawl.status = "crawling" /\ CrawlTop.phase = "enter"
    /\ CrawlTop.parent_id \in crawl.visited_ids
    /\ crawl' = CrawlReturn(crawl)
    /\ UNCHANGED <<rt, events, emb, ups, chk, rag, run, pl, tool, nrm>>

\* _fetch_immediate_children lines 176-198: the API serves the child list in
\* one or more responses (_links.next); the results of the responses
\* received are collected until there is no next link or a request fails
\* (`if not data: break`).  served is the number of children in the
\* responses received: all of them, or those before the failing request
FetchImmediateChildren(child_list, served) == SubSeq(child_list, 1, served)

\* lines 116-122: the id is marked visited and its children are fetched
CrawlFetchChildren ==
    /\ crawl.status = "crawling" /\ CrawlTop.phase = "enter"
    /\ CrawlTop.parent_id \notin crawl.visited_ids
    /\ \E served \in 0..Len(crawl.graph[CrawlTop.parent_id]) :
          LET children == FetchImmediateChildren(crawl.graph[CrawlTop.parent_id], served)
          IN  crawl' = [crawl EXCEPT
                           !.visited_ids = @ \cup {CrawlTop.parent_id},
                           !.fetched = Append(@, CrawlTop.parent_id),
                           !.stack[Len(crawl.stack)] =
                               [@ EXCEPT !.phase = "loop", !.children = children]]
    /\ UNCHANGED <<rt, events, emb, ups, chk, rag, run, pl, tool, nrm>>

\* lines 124-134, one iteration: the child is processed with the parent's
\* ancestors, the crawler sleeps 0.2 s and calls itself on the child
CrawlChild ==
    /\ crawl.status = "crawling" /\ CrawlTop.phase = "loop"
    /\ CrawlTop.idx <= Len(CrawlTop.children)
    /\ LET page_id == CrawlTop.children[CrawlTop.idx]
           next_level_ancestors == Append(CrawlTop.ancestors, page_id)
       IN  crawl' = [crawl EXCEPT
                        !.processed = Append(@, ProcessPage(page_id, CrawlTop.ancestors)),
                        !.stack = Append([@ EXCEPT ![Len(crawl.stack)].idx = @ + 1],
                                         Frame(page_id, next_level_ancestors))]
    /\ events' = Append(events, SleepEv(CRAWL_SLEEP_MS))
    /\ UNCHANGED <<rt, emb, ups, chk, rag, run, pl, tool, nrm>>

\* the for-loop is exhausted: the activation returns None
CrawlLoopEnds ==
    /\ crawl.status = "crawling" /\ CrawlTop.phase = "loop"
    /\ CrawlTop.idx > Len(CrawlTop.children)
    /\ crawl' = CrawlReturn(crawl)
    /\ UNCHANGED <<rt, events, emb, ups, chk, rag, run, pl, tool, nrm>>

NextCrawl ==
    \/ ScrapeTreeRootMissing
    \/ ScrapeTreeRoot
    \/ CrawlAlreadyVisited
    \/ CrawlFetchChildren
    \/ CrawlChild
    \/ CrawlLoopEnds

SpecCrawl == InitCrawl /\ [][NextCrawl]_vars

\* the crawl is one sequential call: a step that can be taken is taken
SpecCrawlLive == SpecCrawl /\ WF_vars(NextCrawl)

\* ======================================================================
\* KnowledgeBasePipeline._embed_and_upsert
\* ======================================================================
\* most chunks handed to _embed_and_upsert
MaxPlChunks == 2

\* chunk lists explored: every chunk with an id, without, or with an empty one
PlChunkLists ==
    UNION {{[i \in 1..n |-> ChunkAt(i, kinds[i])] : kinds \in [1..n -> IdKinds]} :
           n \in 0..MaxPlChunks}

\* [doc.page_content for doc in document]
PlTexts(chunks) == [k \in 1..Len(chunks) |-> chunks[k].content]

\* self.pc.has_index(self.kb_name): what it returned, the exception it raised
HasIndexEv(exists, exc) == [ev |-> "has_index", exists |-> exists, exc |-> exc]

\* create_vector_db_index(pinecone_client=self.pc, index_name=self.kb_name)
CreateIndexEv(exc) == [ev |-> "create_index", exc |-> exc]

\* a call of an embedder or of upsert_to_vector_db by _embed_and_upsert
StageCallEv(target) == [ev |-> "call", target |-> target]

PlEnter(chunks) ==
    [status |-> "index", chunks |-> chunks, dense_embeddings |-> <<>>,
     sparse_embeddings |-> <<>>, exc |-> NoExc]

InitPl ==
    /\ \E chunks \in PlChunkLists : pl = PlEnter(chunks)
    /\ rt = Idle
    /\ emb = Idle
    /\ ups = Idle
    /\ chk = Idle
    /\ rag = Idle
    /\ events = <<>>
    /\ run = Idle
    /\ tool = Idle
    /\ nrm = Idle
    /\ crawl = Idle

\* (mutation: the handler logs the failure and the method returns)
PlStageFailureSwallowed(p, e) == [p EXCEPT !.status = "returned"]

\* the bare `raise` of each handler (lines 322, 331, 340, 353); an exception
\* that `except RuntimeError` does not match leaves the method just the same
PlStageFailure(p, e) == [p EXCEPT !.status = "raised", !.exc = e]

\* line 327: self.gemini_embedder.embed_KB_document_dense(document=chunks)
PlCallDense ==
    /\ emb' = CreateEmbeddingsEnter("dense", PlTexts(pl.chunks))
    /\ pl' = [pl EXCEPT !.status = "dense"]

\* lines 315 and 318-319: has_index returns True
PlIndexExists ==
    /\ pl.status = "index"
    /\ events' = events \o <<HasIndexEv(TRUE, NoExc), StageCallEv("dense")>>
    /\ PlCallDense
    /\ UNCHANGED <<rt, ups, chk, rag, run, tool, nrm, crawl>>

\* create_vector_db_index line 29: pc.Index(index_name) on the index just created
CreatedIndexEv(exc) == [ev |-> "Index of created index", exc |-> exc]

\* lines 315-317: has_index returns False, the index is created and opened
\* (create_vector_db_index lines 14-30)
PlIndexCreated ==
    /\ pl.status = "index"
    /\ events' = events \o <<HasIndexEv(FALSE, NoExc), CreateIndexEv(NoExc),
                             CreatedIndexEv(NoExc), StageCallEv("dense")>>
    /\ PlCallDense
    /\ UNCHANGED <<rt, ups, chk, rag, run, tool, nrm, crawl>>

\* lines 320-322: has_index raises; the exception is logged and re-raised
PlIndexCheckFails ==
    /\ pl.status = "index"
    /\ \E c \in IndexQueryErrors :
          LET e == Exc(c, FALSE, 1)
          IN  /\ events' = Append(events, HasIndexEv(FALSE, e))
              /\ pl' = PlStageFailure(pl, e)
    /\ UNCHANGED <<rt, emb, ups, chk, rag, run, tool, nrm, crawl>>

\* lines 316-317 and 320-322: has_index returns False and create_index
\* raises; create_vector_db_index raises a RuntimeError in its place, which
\* the bare `raise` passes on
PlIndexCreateFails ==
    /\ pl.status = "index"
    /\ \E c \in IndexQueryErrors :
          LET e == Exc(c, FALSE, 1)
          IN  /\ events' = events \o <<HasIndexEv(FALSE, NoExc), CreateIndexEv(e)>>
              /\ pl' = PlStageFailure(pl, CreateIndexError(e))
    /\ UNCHANGED <<rt, emb, ups, chk, rag, run, tool, nrm, crawl>>

\* create_vector_db_index line 29 and lines 320-322: the index was created
\* and pc.Index raises, outside the try of create_vector_db_index; the
\* exception is passed on as it is
PlIndexOpenFails ==
    /\ pl.status = "index"
    /\ \E c \in IndexQueryErrors :
          LET e == Exc(c, FALSE, 1)
          IN  /\ events' = events \o <<HasIndexEv(FALSE, NoExc), CreateIndexEv(NoExc),
                                       CreatedIndexEv(e)>>
              /\ pl' = PlStageFailure(pl, e)
    /\ UNCHANGED <<rt, emb, ups, chk, rag, run, tool, nrm, crawl>>

\* lines 327-336: the dense embeddings came back; the sparse embedder is called
PlDenseReturns ==
    /\ pl.status = "dense" /\ emb.status = "returned"
    /\ pl' = [pl EXCEPT !.status = "sparse", !.dense_embeddings = emb.result]
    /\ emb' = CreateEmbeddingsEnter("sparse", PlTexts(pl.chunks))
    /\ events' = Append(events, StageCallEv("sparse"))
    /\ UNCHANGED <<rt, ups, chk, rag, run, tool, nrm, crawl>>

\* lines 329-331: embed_KB_document_dense raised
PlDenseFails ==
    /\ pl.status = "dense" /\ emb.status = "raised"
    /\ pl' = PlStageFailure(pl, emb.exc)
    /\ UNCHANGED <<rt, events, emb, ups, chk, rag, run, tool, nrm, crawl>>

\* lines 336-348: the sparse embeddings came back; upsert_to_vector_db is
\* called with the chunks and both embedding lists
PlSparseReturns ==
    /\ pl.status = "sparse" /\ emb.status = "returned"
    /\ pl' = [pl EXCEPT !.status = "upsert", !.sparse_embeddings = emb.result]
    /\ ups' = [status |-> "called", text_chunks |-> pl.chunks,
               dense_embeddings |-> pl.dense_embeddings,
               sparse_embeddings |-> emb.result,
               records |-> <<>>, i |-> 0, store |-> {}, exc |-> NoExc]
    /\ events' = Append(events, StageCallEv("upsert"))
    /\ UNCHANGED <<rt, emb, chk, rag, run, tool, nrm, crawl>>

\* lines 338-340: embed_KB_document_sparse raised
PlSparseFails ==
    /\ pl.status = "sparse" /\ emb.status = "raised"
    /\ pl' = PlStageFailure(pl, emb.exc)
    /\ UNCHANGED <<rt, events, emb, ups, chk, rag, run, tool, nrm, crawl>>

\* line 350: upsert_to_vector_db returned; the method returns None
PlUpsertReturns ==
    /\ pl.status = "upsert" /\ ups.status = "returned"
    /\ pl' = [pl EXCEPT !.status = "returned"]
    /\ UNCHANGED <<rt, events, emb, ups, chk, rag, run, tool, nrm, crawl>>

\* lines 351-353: upsert_to_vector_db raised
PlUpsertFails ==
    /\ pl.status = "upsert" /\ ups.status = "raised"
    /\ pl' = PlStageFailure(pl, ups.exc)
    /\ UNCHANGED <<rt, events, emb, ups, chk, rag, run, tool, nrm, crawl>>

\* _embed_and_upsert with the embedders' batch loops and the write loop of
\* upsert_to_vector_db running inside it
NextPl ==
    \/ PlIndexExists
    \/ PlIndexCreated
    \/ PlIndexCheckFails
    \/ PlIndexCreateFails
    \/ PlIndexOpenFails
    \/ EmbedEmptyInput
    \/ SubmitBatchOk
    \/ SubmitBatchRateLimited
    \/ SubmitBatchProviderError
    \/ SubmitBatchOtherError
    \/ ResubmitOk
    \/ ResubmitRateLimited
    \/ ResubmitProviderError
    \/ ResubmitOtherError
    \/ PlDenseReturns
    \/ PlDenseFails
    \/ PlSparseReturns
    \/ PlSparseFails
    \/ UpsertIndexFails
    \/ UpsertBuildRecords
    \/ UpsertBatchOk
    \/ UpsertBatchFails
    \/ PlUpsertReturns
    \/ PlUpsertFails

SpecPl == InitPl /\ [][NextPl]_vars

\* ======================================================================
\* Properties of retry_with_backoff (SpecRetry)
\* ======================================================================
RetryFinished == rt.status \in {"returned", "raised"}

\* C3: fn is invoked at most max_retries + 1 times (and sleep at most
\* max_retries times) in any run; when the run ends by raising a retryable
\* exception, i.e. every invocation failed with a retryable exception, fn was
\* invoked exactly max_retries + 1 times, sleep exactly max_retries times with
\* none after the last attempt, and the exception raised to the caller is the
\* very exception object of the last attempt.
C3_AttemptsBoundedAndLastExceptionReraised ==
    /\ rt.status # "idle" =>
          /\ rt.calls <= rt.max_retries + 1
          /\ Len(CallsOf(events)) = rt.calls
          /\ Len(SleepsOf(events)) <= rt.max_retries
    /\ (rt.status = "raised" /\ rt.exc.cls \in rt.retryable_on) =>
          /\ rt.calls = rt.max_retries + 1
          /\ Len(SleepsOf(events)) = rt.max_retries
          /\ LastEvIsCall(events)
          /\ rt.exc = rt.last
          /\ rt.exc.at = rt.calls

C3_Witness ==
    /\ rt.status = "raised" /\ rt.exc.cls \in rt.retryable_on
    /\ rt.max_retries = 3 /\ rt.calls = 4 /\ Len(SleepsOf(events)) = 3

\* C4: the k-th sleep (k from 0) lasts exactly min(initial_delay * 2^k,
\* max_delay) seconds; every sleep directly follows a failed call and is
\* directly followed by the next call (a finished run never ends with a
\* sleep, two calls are never adjacent); and once a call succeeds its result
\* is returned and nothing more is called or slept.
C4_SleepDurationsAndPlacement ==
    /\ [](rt.status # "idle" =>
          /\ \A k \in 1..Len(SleepsOf(events)) :
                SleepsOf(events)[k].ms =
                    1000 * Min(rt.initial_delay * Pow2(k - 1), rt.max_delay)
          /\ \A i \in 1..Len(events) :
                /\ (i % 2 = 1) => events[i].ev = "fn"
                /\ (i % 2 = 0) => events[i].ev = "sleep"
          /\ RetryFinished => LastEvIsCall(events)
          /\ rt.status = "running" => Len(events) = 2 * rt.attempt
          /\ rt.status = "returned" => rt.last = NoExc /\ rt.result = <<"success">>)
    /\ [][rt.status = "returned" => UNCHANGED <<rt, events>>]_vars

C4_Witness ==
    /\ rt.status = "raised"
    /\ rt.initial_delay = 2 /\ rt.max_delay = 10
    /\ [k \in 1..Len(SleepsOf(events)) |-> SleepsOf(events)[k].ms]
         = <<2000, 4000, 8000, 10000, 10000, 10000>>

\* C5: as soon as a call raises an exception whose class is not in
\* retryable_on (on the first or on a later attempt), retry_with_backoff has
\* raised that same exception: no sleep follows the call and nothing is
\* called afterwards.
C5_NonRetryablePropagatesAtOnce ==
    /\ []((rt.status # "idle" /\ rt.last # NoExc /\ rt.last.cls \notin rt.retryable_on) =>
          /\ rt.status = "raised"
          /\ rt.exc = rt.last
          /\ LastEvIsCall(events)
          /\ Len(CallsOf(events)) = rt.last.at)
    /\ [][rt.status = "raised" => UNCHANGED <<rt, events>>]_vars

C5_Witness ==
    /\ rt.status = "raised" /\ rt.exc.cls = "TypeError"
    /\ rt.calls = 3 /\ Len(SleepsOf(events)) = 2

\* ======================================================================
\* Properties of document embedding (SpecEmbed)
\* ======================================================================
\* the normalized vector of each text, written out
ExpectedVector(mode, text) ==
    IF mode = "dense"
      THEN CASE text = 0 -> <<Frac(0, 1), Frac(0, 1)>>
             [] text = 1 -> <<Frac(3, 5), Frac(4, 5)>>
             [] OTHER    -> <<Frac(0 - 4, 5), Frac(3, 5)>>
      ELSE CASE text = 0 -> [sparse_indices |-> <<7>>, sparse_values |-> <<Frac(0, 1)>>]
             [] text = 1 -> [sparse_indices |-> <<1, 5>>,
                             sparse_values |-> <<Frac(3, 5), Frac(4, 5)>>]
             [] OTHER    -> [sparse_indices |-> <<2, 5, 9>>,
                             sparse_values |-> <<Frac(2, 3), Frac(1, 3), Frac(2, 3)>>]

SubmitEvents == SelectSeq(events, LAMBDA e : e.ev = "submit")

\* C2: whenever document embedding returns, for an input list of any length
\* N >= 0, the returned list has length exactly N and its i-th element is the
\* normalized vector of the i-th input text (whether the batches were
\* obtained at once or after retries).
C2_OutputLengthAndOrder ==
    emb.status = "returned" =>
        /\ Len(emb.result) = emb.n
        /\ \A i \in 1..Len(emb.result) :
              i <= emb.n => emb.result[i] = ExpectedVector(emb.mode, emb.texts[i])

\* C6: the submissions, in order, never go back to an earlier batch: a
\* resubmission carries the same batch (number and texts) as the submission
\* before it, a first submission carries the batch right after the one
\* submitted before it, and while the run goes on the vectors collected are
\* exactly those of the texts of all batches completed so far.
C6_OnlyFailingBatchResubmitted ==
    emb.status # "idle" =>
        /\ \A i \in 1..Len(SubmitEvents) :
              LET e == SubmitEvents[i]
              IN  /\ e.texts = EmbBatches[e.batch]
                  /\ IF e.first
                       THEN e.batch = (IF i = 1 THEN 1 ELSE SubmitEvents[i - 1].batch + 1)
                       ELSE i > 1 /\ e.batch = SubmitEvents[i - 1].batch
        /\ emb.status = "running" =>
              /\ Len(emb.raw) = Min((emb.batch_num - 1) * BatchSize(emb.mode), emb.n)
              /\ emb.raw = ProviderEmbed(emb.mode, SubSeq(emb.texts, 1, Len(emb.raw)))

C6_Witness ==
    /\ emb.status = "running" /\ emb.batch_num = 3 /\ emb.phase = "submit"
    /\ Len(SubmitEvents) = 4
    /\ SubmitEvents[2].first /\ SubmitEvents[2].batch = 2
    /\ ~SubmitEvents[3].first /\ ~SubmitEvents[4].first

\* C7: while a rate-limited batch is being retried, a resubmission that fails
\* with a provider error that is not a rate limit ends the call with that
\* error (the batch is not submitted again).
C7_NonRateLimitErrorEndsRetry ==
    (emb.status # "idle" /\ emb.phase = "retry"
        /\ emb.cause.cls = ProviderClass(emb.mode) /\ ~IsRateLimit(emb.cause)) =>
            emb.status = "raised" /\ emb.exc = emb.cause

\* C8: every failure of a batch submission that is not a rate limit (a
\* provider-class error included) ends the call at once with a RuntimeError
\* that names the batch number and the total number of batches.
C8_NonRateLimitErrorWrapped ==
    (emb.status # "idle" /\ emb.cause # NoExc /\ ~IsRateLimit(emb.cause)) =>
        /\ emb.status = "raised"
        /\ emb.exc.cls = "RuntimeError"
        /\ emb.exc.batch = emb.batch_num /\ emb.exc.total = EmbTotal
        /\ emb.exc.cause = emb.cause.cls

\* C9: when a batch is rate-limited on its first submission and on every one
\* of the max_retries + 1 resubmissions, the call raises RuntimeError.
C9_ExhaustionRaisesRuntimeError ==
    (emb.status = "raised" /\ emb.phase = "retry" /\ IsRateLimit(emb.cause)
        /\ rt.calls = EMBED_MAX_RETRIES + 1) =>
            emb.exc.cls = "RuntimeError"

\* ======================================================================
\* Properties of upsert_to_vector_db (SpecUpsert)
\* ======================================================================
UpsLengthsDiffer ==
    \/ Len(ups.text_chunks) # Len(ups.dense_embeddings)
    \/ Len(ups.text_chunks) # Len(ups.sparse_embeddings)

\* C1: when the three lists do not all have the same length, the call issues
\* neither an index connection nor an index.upsert write, and it ends by
\* raising a mismatch error (ValueError), never by returning.
C1_MismatchRaisesBeforeAnyWrite ==
    (ups.status # "idle" /\ UpsLengthsDiffer) =>
        /\ \A k \in 1..Len(events) : events[k].ev \notin {"Index", "upsert"}
        /\ ups.status \in {"called", "raised"}
        /\ ups.status = "raised" => ups.exc.cls = "ValueError"

UpsLengthsEqual ==
    /\ Len(ups.text_chunks) = Len(ups.dense_embeddings)
    /\ Len(ups.text_chunks) = Len(ups.sparse_embeddings)

UpsertEvents == SelectSeq(events, LAMBDA e : e.ev = "upsert")

\* the positions of the input whose chunk carries an id
UpsValidPositions ==
    {i \in 1..Len(ups.text_chunks) : ups.text_chunks[i].id[1] \notin {"None", ""}}

\* record r is the chunk at position i with the two vectors of position i
RecordOfPosition(r, i) ==
    /\ r.id = ups.text_chunks[i].id
    /\ r.text = ups.text_chunks[i].content
    /\ r.values = ups.dense_embeddings[i]
    /\ r.sparse_values.indices = ups.sparse_embeddings[i].sparse_indices
    /\ r.sparse_values.values = ups.sparse_embeddings[i].sparse_values

\* C18: with three lists of equal length, every record handed to
\* index.upsert carries the id and content of the chunk of some position i
\* and the dense and sparse vector of that same position i, also when
\* chunks before it were skipped for lack of an id.
C18_RecordsArePositional ==
    (ups.status # "idle" /\ UpsLengthsEqual) =>
        \A k \in 1..Len(events) :
            events[k].ev = "upsert" =>
                \A j \in 1..Len(events[k].vectors) :
                    \E i \in 1..Len(ups.text_chunks) :
                        RecordOfPosition(events[k].vectors[j], i)

\* three chunks, the first without id, were written: the record of the
\* third chunk is in the write
C18_Witness ==
    /\ ups.status = "returned"
    /\ UpsLengthsEqual
    /\ Len(ups.text_chunks) = 3
    /\ 1 \notin UpsValidPositions
    /\ \E k \in 1..Len(events) :
          /\ events[k].ev = "upsert"
          /\ \E j \in 1..Len(events[k].vectors) :
                RecordOfPosition(events[k].vectors[j], 3)

\* C19: (lists of equal length) once the records are built, a chunk whose
\* id is absent or empty has no record, every other chunk has exactly one,
\* and the call has not raised: it goes on to write, or returns when no
\* record is left; only a failing index call makes it raise.
C19_MissingIdSkippedNotFatal ==
    (ups.status # "idle" /\ UpsLengthsEqual) =>
        /\ ups.status = "raised" => ups.exc.cls \in IndexWriteErrors
        /\ ups.status \in {"writing", "returned"} =>
              /\ Len(ups.records) = Cardinality(UpsValidPositions)
              /\ \A i \in UpsValidPositions :
                    Cardinality({k \in 1..Len(ups.records) :
                                    ups.records[k].id = ups.text_chunks[i].id}) = 1
              /\ \A k \in 1..Len(ups.records) :
                    \E i \in UpsValidPositions : ups.records[k].id = ups.text_chunks[i].id

\* a call over three chunks, one with an absent and one with an empty id,
\* returned after writing the one record left
C19_Witness ==
    /\ ups.status = "returned"
    /\ UpsLengthsEqual
    /\ Len(ups.text_chunks) = 3
    /\ \E i, j \in 1..3 : /\ ups.text_chunks[i].id[1] = "None"
                          /\ ups.text_chunks[j].id[1] = ""
    /\ Len(ups.records) = 1
    /\ Len(UpsertEvents) = 1

RECURSIVE ConcatVectors(_)
ConcatVectors(writes) ==
    IF writes = <<>> THEN <<>> ELSE Head(writes).vectors \o ConcatVectors(Tail(writes))

\* C20: a call that returns (no write failed) over R valid records has
\* issued exactly ceiling(R / M) index.upsert calls, M = 50; each carries at
\* most M records, and in order they are consecutive slices of the record
\* list, so that every record is written exactly once.
C20_WriteBatchCountAndSlices ==
    ups.status = "returned" =>
        LET writes == UpsertEvents
            R == Len(ups.records)
        IN  /\ Len(writes) * 50 >= R
            /\ (Len(writes) > 0 => (Len(writes) - 1) * 50 < R)
            /\ \A k \in 1..Len(writes) :
                  /\ Len(writes[k].vectors) <= 50
                  /\ Len(writes[k].vectors) >= 1
            /\ ConcatVectors(writes) = ups.records
            /\ \A a, b \in 1..R : a # b => ups.records[a].id # ups.records[b].id

\* 101 valid records were written by three calls
C20_Witness ==
    /\ ups.status = "returned"
    /\ Len(ups.records) = 101
    /\ Len(UpsertEvents) = 3
    /\ Len(UpsertEvents[3].vectors) = 1

\* the write of some batch failed (the call raised out of index.upsert)
UpsWriteFailed ==
    /\ ups.status = "raised"
    /\ Len(events) >= 2
    /\ events[Len(events)].ev = "upsert"

\* C21: when the write of batch k fails the call raises that exception at
\* once: the failing write is the last call made, the index holds exactly
\* the records of batches 1..k-1, nothing but index.upsert was called on the
\* index (no delete), and nothing is written afterwards.
C21_WriteFailurePropagatesNoRollback ==
    /\ [](UpsWriteFailed =>
            /\ ups.exc.cls \in IndexWriteErrors
            /\ ups.exc.at = Len(events)
            /\ events[1] = IndexEv
            /\ \A j \in 2..Len(events) : events[j].ev = "upsert"
            /\ ups.store = UNION {{events[j].vectors[n] : n \in 1..Len(events[j].vectors)} :
                                     j \in 2..(Len(events) - 1)}
            /\ UpsertEvents[Len(UpsertEvents)].vectors = WriteBatch(ups.records, ups.i))
    /\ [][ups.status = "raised" => UNCHANGED <<ups, events>>]_vars

\* the second write failed after the first wrote its 50 records
C21_Witness ==
    /\ UpsWriteFailed
    /\ Len(UpsertEvents) = 2
    /\ Cardinality(ups.store) = 50

\* ======================================================================
\* Properties of TextChunker.split_text (SpecChunk)
\* ======================================================================
\* C10: for every document text (empty, front-matter only and header-less
\* texts included) and every source_name, given or absent, split_text ends
\* by returning a list that holds at least one chunk.
C10_AtLeastOneChunk ==
    chk.status \notin {"idle", "called"} =>
        chk.status = "returned" /\ Len(chk.chunks) >= 1

\* C11: in the list one split_text call returns, the chunk at 1-based
\* position n has the id root_id + "_chunk_" + n, root_id being the same for
\* every chunk of the list; so the ids are pairwise distinct and their
\* numbers strictly increase with position, also between two chunks of
\* identical content and header metadata.
C11_ChunkIdsNumberedByPosition ==
    chk.status = "returned" =>
        /\ \A n \in 1..Len(chk.chunks) :
              /\ chk.chunks[n].id.n = n
              /\ chk.chunks[n].id.root = chk.chunks[1].id.root
        /\ \A i, j \in 1..Len(chk.chunks) :
              i < j => /\ chk.chunks[i].id # chk.chunks[j].id
                       /\ chk.chunks[i].id.n < chk.chunks[j].id.n

\* a returned list with two chunks of identical content and headers
C11_Witness ==
    /\ chk.status = "returned"
    /\ \E i, j \in 1..Len(chk.chunks) :
          /\ i < j
          /\ chk.chunks[i].original_content = chk.chunks[j].original_content
          /\ chk.chunks[i].headers = chk.chunks[j].headers
          /\ chk.chunks[i].id # chk.chunks[j].id

\* the text holds a front-matter block that supplies a page identifier
HasPageId == \E k \in 1..Len(chk.text) : chk.text[k] = Line("page_id: 7")

\* the lower-cased filename stem of each source name explored, with every
\* non-alphanumeric character replaced by "_", written out
ExpectedStemRoot(source_name) ==
    CASE source_name = <<"A", "-", "b", ".", "b">> -> <<"a", "_", "b">>
      [] source_name = <<"a", "_", "b", ".", "b">> -> <<"a", "_", "b">>
      [] source_name = <<"a", ".", "b", ".">>      -> <<"a", "_", "b", "_">>
      [] OTHER                                     -> <<>>

IsAnonRoot(root) == root.chars = <<"a", "n", "o", "n", "_">> /\ root.hashed # <<>>

\* C12 (as stated): the root id of the returned chunks follows the priority
\* chain: the page identifier of the front-matter if there is one (the
\* filename is then ignored); otherwise, with a source name, the lower-cased
\* filename stem with every non-alphanumeric character replaced by "_"; only
\* without both, "anon_" followed by the hash characters.
C12_RootIdStrictChain ==
    (chk.status = "returned" /\ Len(chk.chunks) > 0) =>
        LET root == chk.chunks[1].id.root
        IN  IF HasPageId
              THEN root = RootOf(<<"7">>, <<>>)
            ELSE IF chk.source_name # NoSource
              THEN root = RootOf(ExpectedStemRoot(chk.source_name), <<>>)
            ELSE IsAnonRoot(root)

\* C12 (amended): the page identifier of the front-matter if there is one
\* (the filename is then ignored); otherwise, with a source name whose
\* filename stem is not empty, the lower-cased stem with every
\* non-alphanumeric character replaced by "_"; in every other case (no
\* source name, or one with an empty stem such as "."), "anon_" followed by
\* the hash characters.
C12_RootIdPriorityChain ==
    (chk.status = "returned" /\ Len(chk.chunks) > 0) =>
        LET root == chk.chunks[1].id.root
        IN  IF HasPageId
              THEN root = RootOf(<<"7">>, <<>>)
            ELSE IF chk.source_name # NoSource /\ ExpectedStemRoot(chk.source_name) # <<>>
              THEN root = RootOf(ExpectedStemRoot(chk.source_name), <<>>)
            ELSE IsAnonRoot(root)

\* a text with a page identifier was chunked under a source name, and the
\* page identifier became the root id
C12_Witness ==
    /\ chk.status = "returned"
    /\ Len(chk.chunks) > 0
    /\ HasPageId
    /\ chk.source_name # NoSource
    /\ chk.chunks[1].id.root.chars = <<"7">>

\* the throttle sleeps performed so far
ThrottleSleeps == SelectSeq(events, LAMBDA e : e.ev = "sleep" /\ e.ms = THROTTLE_MS)

\* C16: the first submission of every batch but the first comes directly
\* after one 0.5 s throttle sleep, which itself comes directly after the
\* submission that completed the batch before (a first submission or a
\* resubmission); every completed batch has had its throttle sleep, so a run
\* that returns ends with the sleep of its last (or only) batch.
C16_ThrottleAfterEveryBatch ==
    emb.status # "idle" =>
        /\ \A k \in 1..Len(events) :
              (events[k].ev = "submit" /\ events[k].first /\ events[k].batch > 1) =>
                  /\ k >= 3
                  /\ events[k - 1] = SleepEv(500)
                  /\ events[k - 2].ev = "submit"
                  /\ events[k - 2].batch = events[k].batch - 1
        /\ Len(ThrottleSleeps) = emb.batch_num - 1
        /\ (emb.status = "returned" /\ emb.n > 0) =>
              /\ Len(ThrottleSleeps) = Len(EmbBatches)
              /\ events[Len(events)] = SleepEv(500)
              /\ events[Len(events) - 1].ev = "submit"

\* a run of two batches or more returned, its first batch completed by a
\* resubmission
C16_Witness ==
    /\ emb.status = "returned"
    /\ Len(EmbBatches) >= 2
    /\ \E k \in 1..Len(events) :
          events[k].ev = "submit" /\ ~events[k].first /\ events[k].batch = 1

\* concatenation of the text lists of a sequence of submissions
RECURSIVE ConcatTexts(_)
ConcatTexts(subs) ==
    IF subs = <<>> THEN <<>> ELSE Head(subs).texts \o ConcatTexts(Tail(subs))

\* no submission of the run failed: every submission was a first submission
\* and the run returned
NoBatchFailed ==
    /\ emb.status = "returned"
    /\ \A k \in 1..Len(events) : events[k].ev = "submit" => events[k].first

\* C17: a run over N texts with batch size B in which no batch fails makes
\* exactly ceiling(N / B) submissions; each carries at most B texts, all but
\* the last exactly B, and in order they are consecutive slices of the input
\* covering every text once.
C17_BatchCountAndSlices ==
    NoBatchFailed =>
        LET subs == SubmitEvents
            B == BatchSize(emb.mode)
            N == Len(emb.texts)
        IN  /\ Len(subs) * B >= N
            /\ (Len(subs) > 0 => (Len(subs) - 1) * B < N)
            /\ \A k \in 1..Len(subs) :
                  /\ Len(subs[k].texts) <= B
                  /\ Len(subs[k].texts) >= 1
                  /\ k < Len(subs) => Len(subs[k].texts) = B
                  /\ subs[k].batch = k
            /\ ConcatTexts(subs) = emb.texts

\* two full batches and a last partial one were submitted without failure
C17_Witness ==
    /\ NoBatchFailed
    /\ Len(SubmitEvents) = 3
    /\ Len(SubmitEvents[2].texts) = BatchSize(emb.mode)
    /\ Len(SubmitEvents[3].texts) < BatchSize(emb.mode)

\* the body of the text: what is left once the front-matter block is taken off
BodyOf(text) ==
    LET t == StripText(text)
    IN  IF Len(t) >= 2 /\ t[1] = FmBoundary /\ (\E k \in 2..Len(t) : t[k] = FmBoundary)
          THEN StripText(SubSeq(t, (CHOOSE k \in 2..Len(t) :
                                      t[k] = FmBoundary /\ \A j \in 2..(k - 1) : t[j] # FmBoundary) + 1,
                                Len(t)))
          ELSE t

\* C23: when the header splitter fails (and the front-matter was parsed),
\* the header-split step raises nothing and hands on exactly one segment,
\* the unmodified body with empty header metadata; split_text goes on: no
\* exception of the header splitter reaches the caller, and unless a later
\* stage fails the call returns the chunks of that one segment.
C23_HeaderSplitFailureFallsBack ==
    (chk.status \in {"returned", "raised"} /\ "headers" \in chk.faults
       /\ "frontmatter" \notin chk.faults) =>
        /\ chk.header_splits = <<[content |-> BodyOf(chk.text), metadata |-> <<>>]>>
        /\ chk.exc.cls # "headers"
        /\ chk.status = "returned" =>
              \A n \in 1..Len(chk.chunks) : chk.chunks[n].headers = <<>>
        /\ (chk.status = "raised" /\ "recursive" \notin chk.faults) =>
              chk.exc.cls = "IndexError"

\* a body with a header line was chunked while the header splitter failed
C23_Witness ==
    /\ chk.status = "returned"
    /\ chk.faults = {"headers"}
    /\ \E k \in 1..Len(chk.text) : chk.text[k] = Line("# A")
    /\ Len(chk.chunks) >= 2

\* C24: when front-matter parsing or recursive splitting fails, split_text
\* ends by raising that same exception; it never returns a chunk list
\* (partial or empty) in place of the failure.
C24_FailFastOnParseAndRecursiveSplit ==
    (chk.status \in {"returned", "raised"}
       /\ chk.faults \cap {"frontmatter", "recursive"} # {}) =>
        /\ chk.status = "raised"
        /\ chk.chunks = <<>>
        /\ chk.exc = IF "frontmatter" \in chk.faults
                       THEN Exc("frontmatter", FALSE, 0) ELSE Exc("recursive", FALSE, 0)

\* the recursive splitter failed on a text with a body and the call raised
C24_Witness ==
    /\ chk.status = "raised"
    /\ chk.faults = {"recursive"}
    /\ chk.exc.cls = "recursive"
    /\ Len(chk.text) >= 2

\* ======================================================================
\* Properties of VectorNormalizer.normalize (SpecNormalize)
\* ======================================================================
\* every component of the value list is 0 (its L2 norm is exactly 0)
IsZeroVector(values) == \A k \in 1..Len(values) : Numerator(values[k]) = 0

\* the vectors a dense call was given: the rows of a list of vectors, or the
\* one vector that a flat list of floats is
DenseVectorsGiven == IF Ndim(nrm.vectors) = 1 THEN <<nrm.vectors>> ELSE nrm.vectors

\* C25: a dense or sparse call never raises, whatever zero vectors the
\* batch holds; a dense vector of norm 0 comes back as a vector of zeros of
\* the same length (no nan from a division by zero), a sparse vector of
\* norm 0 comes back with its values and its indices as they were.
C25_ZeroVectorNormalization ==
    (nrm.status \in {"returned", "raised"} /\ nrm.vector_type \in {"dense", "sparse"}) =>
        /\ nrm.status = "returned"
        /\ IF nrm.vector_type = "dense"
             THEN /\ Len(nrm.result) = Len(DenseVectorsGiven)
                  /\ \A i \in 1..Len(DenseVectorsGiven) :
                        IsZeroVector(DenseVectorsGiven[i]) =>
                            /\ Len(nrm.result[i]) = Len(DenseVectorsGiven[i])
                            /\ \A k \in 1..Len(nrm.result[i]) :
                                  nrm.result[i][k] = Frac(0, 1)
             ELSE \A i \in 1..Len(nrm.vectors) :
                    IsZeroVector(nrm.vectors[i].sparse_values) =>
                        /\ nrm.result[i].sparse_values = nrm.vectors[i].sparse_values
                        /\ nrm.result[i].sparse_indices = nrm.vectors[i].sparse_indices

\* a dense batch whose second row is a zero vector of length 2 was normalized
C25_Witness ==
    /\ nrm.status = "returned"
    /\ nrm.vector_type = "dense"
    /\ Len(nrm.vectors) = 2
    /\ nrm.vectors = <<<<Num(3), Num(4)>>, <<Num(0), Num(0)>>>>
    /\ nrm.result[1] = <<Frac(3, 5), Frac(4, 5)>>

\* ======================================================================
\* Properties of RagRetriever.retrieve_RAG_matches (SpecRag)
\* ======================================================================
EventsOf(kinds) == SelectSeq(events, LAMBDA e : e.ev \in kinds)

\* the query client raised
DenseQueryFailed ==
    \E k \in 1..Len(events) : events[k].ev = "embed_query" /\ events[k].exc # NoExc

\* C13: when the dense query embedding fails, the sparse embedder is never
\* called and no index call is made; when the sparse query embedding fails,
\* no index call is made; in both cases the call ends by raising the
\* exception of the failed embedding.
C13_EmbeddingFailureAbortsBeforeIndex ==
    /\ DenseQueryFailed =>
          /\ EventsOf({"submit", "Index", "query"}) = <<>>
          /\ emb.status = "idle"
          /\ rag.status = "raised"
          /\ rag.exc = EventsOf({"embed_query"})[1].exc
    /\ (rag.status # "idle" /\ emb.status = "raised") =>
          /\ EventsOf({"Index", "query"}) = <<>>
          /\ rag.status \in {"sparse", "raised"}
          /\ rag.status = "raised" => rag.exc = emb.exc

\* both failures have been seen to the end: here the sparse one, after the
\* dense embedding succeeded and the batch was rate-limited once
C13_Witness ==
    /\ rag.status = "raised"
    /\ rag.stage = "sparse"
    /\ emb.status = "raised"
    /\ Len(EventsOf({"submit"})) >= 2
    /\ ~DenseQueryFailed

\* C14: a call that returns has issued exactly one index query and returns
\* that query's match list as it is; a query that raises (PineconeException
\* or any other class) makes the call raise that exception; a call never
\* issues a second query, and a failed call returns no value.
C14_OneQueryResultOrException ==
    LET queries == EventsOf({"query"})
    IN  /\ Len(queries) <= 1
        /\ rag.status = "returned" =>
              /\ Len(queries) = 1
              /\ queries[1].exc = NoExc
              /\ rag.matches = queries[1].matches
        /\ (Len(queries) = 1 /\ queries[1].exc # NoExc) =>
              /\ rag.status = "raised"
              /\ rag.exc = queries[1].exc
        /\ rag.status = "raised" => rag.matches = NoMatches

\* the index query raised a PineconeException and the call raised it
C14_Witness ==
    /\ rag.status = "raised"
    /\ rag.stage = "query"
    /\ rag.exc.cls = "PineconeException"
    /\ Len(EventsOf({"query"})) = 1

\* C15: no provider receives a query text longer than the per-item maximum
\* character length: the dense query client and the sparse inference
\* endpoint alike get the query cut to the limit, and a query over the limit
\* is embedded like any other.
C15_QueryTruncatedBeforeSubmission ==
    rag.status # "idle" =>
        \A k \in 1..Len(events) :
            /\ events[k].ev = "embed_query" =>
                  events[k].text <= GEMINI_EMBEDDING_MAX_CHAR_LIMIT
            /\ events[k].ev = "submit" =>
                  \A i \in 1..Len(events[k].texts) :
                      events[k].texts[i] <= PINECONE_EMBEDDING_MAX_CHAR_LIMIT

\* ======================================================================
\* Properties of KnowledgeBasePipeline.run (SpecRun)
\* ======================================================================
StoreIds(store) == {r.id : r \in store}

PageIdOfFile(k) ==
    IF \E n \in 1..Len(run.files[k].text) : run.files[k].text[n] = Line("page_id: 7")
      THEN <<"7">> ELSE <<>>

\* C29: within one run, two chunks that come from two different files have
\* different ids, unless the two files carry the same page identifier; in
\* particular files whose names differ only in "-" versus "_" or in letter
\* case do not share a root id.
C29_NoCrossDocumentIdCollision ==
    run.status # "idle" =>
        \A i, j \in 1..Len(run.all_chunks) :
            (/\ run.owners[i] # run.owners[j]
             /\ ~(/\ PageIdOfFile(run.owners[i]) # <<>>
                  /\ PageIdOfFile(run.owners[i]) = PageIdOfFile(run.owners[j])))
                => run.all_chunks[i].id # run.all_chunks[j].id

\* ======================================================================
\* Backoff of a rate-limited batch (SpecEmbed)
\* ======================================================================
\* number of submissions of batch b made so far (first submission and
\* resubmissions)
SubmissionsOfBatch(b) ==
    Len(SelectSeq(events, LAMBDA e : e.ev = "submit" /\ e.batch = b))

\* C28: every resubmission of a rate-limited batch comes directly after a
\* backoff sleep of at least initial_delay (2 s), and no batch is submitted
\* more than max_retries + 1 = 7 times in total.
C28_BackoffBeforeEveryResubmission ==
    emb.status # "idle" =>
        /\ \A k \in 1..Len(events) :
              (events[k].ev = "submit" /\ ~events[k].first) =>
                  /\ k > 1
                  /\ events[k - 1].ev = "sleep"
                  /\ events[k - 1].ms >= 1000 * EMBED_INITIAL_DELAY
        /\ \A b \in 1..Len(EmbBatches) : SubmissionsOfBatch(b) <= EMBED_MAX_RETRIES + 1

\* ======================================================================
\* Properties of PerformRagTool._run (SpecTool)
\* ======================================================================
\* index.query raised during the call
ToolQueryFailed ==
    \E k \in 1..Len(events) : events[k].ev = "query" /\ events[k].exc # NoExc

\* C27: a failure of the index query, like a failure of the dense or of the
\* sparse query embedding, ends _run by raising; the call never returns a
\* string (or any other value) to its caller after such a failure.
C27_NoFailureMaskedByReturnValue ==
    (tool.status \in {"returned", "raised"}
        /\ (ToolQueryFailed \/ DenseQueryFailed \/ emb.status = "raised")) =>
            /\ tool.status = "raised"
            /\ tool.result = NoString

\* ======================================================================
\* Properties of URLtoMarkdownConverter.scrape_tree (SpecCrawlLive)
\* ======================================================================
\* number of times page id p occurs in a sequence of page ids
TimesIn(p, ids) == Len(SelectSeq(ids, LAMBDA x : x = p))

\* the ids of the pages passed to process_page so far, in call order
ProcessedIds ==
    IF crawl.status = "idle" THEN <<>>
    ELSE [k \in 1..Len(crawl.processed) |-> crawl.processed[k].id]

\* C30: on every finite page graph (cycles and pages with two parents
\* included) scrape_tree terminates, the children of each page id are fetched
\* at most once, and each page is passed to process_page at most once.
C30_CrawlTerminatesEachPageOnce ==
    /\ <>(crawl.status = "done")
    /\ [](\A p \in Pages :
            /\ TimesIn(p, crawl.fetched) <= 1
            /\ TimesIn(p, ProcessedIds) <= 1)

\* ======================================================================
\* Properties of KnowledgeBasePipeline._embed_and_upsert (SpecPl)
\* ======================================================================
\* the stage calls made so far, in order: the index check, then the calls of
\* the dense embedder, the sparse embedder and upsert_to_vector_db
StageCalls ==
    LET marks == SelectSeq(events, LAMBDA e : e.ev \in {"has_index", "call"})
    IN  [k \in 1..Len(marks) |->
            IF marks[k].ev = "has_index" THEN "index" ELSE marks[k].target]

\* has_index, the index creation or the opening of the created index raised
IndexCheckFailed ==
    \E k \in 1..Len(events) :
        /\ events[k].ev \in {"has_index", "create_index", "Index of created index"}
        /\ events[k].exc # NoExc

\* an embedder raised in the given mode
EmbeddingFailed(mode) == emb.status = "raised" /\ emb.mode = mode

\* the provider and index calls made by the embedders and by the upsert
WorkEvents == SelectSeq(events, LAMBDA e : e.ev \in {"submit", "Index", "upsert"})

PlFinished == pl.status \in {"returned", "raised"}

\* C26: the stages are called in the order index check, dense embedding,
\* sparse embedding, upsert, each at most once; after a failed index check
\* no embedder is called, after a failed dense embedding neither the sparse
\* embedder nor the upsert, after a failed sparse embedding no upsert; and
\* the call ends by raising the exception of the stage that failed (for a
\* failed create_index, the RuntimeError create_vector_db_index raises in
\* its place, which carries no cause).
C26_StagesInOrderFailStop ==
    /\ StageCalls = SubSeq(<<"index", "dense", "sparse", "upsert">>, 1, Len(StageCalls))
    /\ IndexCheckFailed =>
          /\ StageCalls = <<"index">>
          /\ WorkEvents = <<>> /\ emb.status = "idle" /\ ups.status = "idle"
          /\ pl.status = "raised"
          /\ LET failed == events[Len(events)]
             IN  IF failed.ev = "create_index"
                   THEN pl.exc.cls = "RuntimeError" /\ pl.exc.cause = "none"
                   ELSE pl.exc = failed.exc
    /\ EmbeddingFailed("dense") =>
          /\ StageCalls = <<"index", "dense">>
          /\ ups.status = "idle"
          /\ PlFinished => (pl.status = "raised" /\ pl.exc = emb.exc)
    /\ EmbeddingFailed("sparse") =>
          /\ StageCalls = <<"index", "dense", "sparse">>
          /\ ups.status = "idle"
          /\ PlFinished => (pl.status = "raised" /\ pl.exc = emb.exc)
    /\ (ups.status = "raised" /\ PlFinished) =>
          pl.status = "raised" /\ pl.exc = ups.exc
    /\ pl.status = "returned" =>
          /\ StageCalls = <<"index", "dense", "sparse", "upsert">>
          /\ ups.status = "returned"

\* the index was created, the dense embedding of two chunks returned, the
\* sparse embedder raised, and the call raised without calling the upsert
C26_Witness ==
    /\ pl.status = "raised"
    /\ Len(pl.chunks) = 2
    /\ EmbeddingFailed("sparse")
    /\ Len(pl.dense_embeddings) = 2
    /\ \E k \in 1..Len(events) : events[k].ev = "create_index"
    /\ StageCalls = <<"index", "dense", "sparse">>
    /\ ups.status = "idle"

====
